---- MODULE Spec2Model ----
(***************************************************************************)
(* Model of the Bitbucket repository-setup orchestrator                    *)
(* (BitbucketSetupCommand, BitbucketService), of the CI workflow rewriter  *)
(* (NpmService.updateWorkflowForOIDC), of PlatformDetector and of the      *)
(* authentication headers of the Bitbucket requests.                       *)
(***************************************************************************)
EXTENDS Integers, Sequences, FiniteSets, TLC

VARIABLES
  pc,          \* position of execute(): the step about to run, or "done"
  force,       \* options.force
  dryRun,      \* options.dryRun
  exitCode,    \* -1 while running, else the process exit code
  origin,      \* `git remote get-url origin`: a URL record, or NoRemote
  startOrigin, \* origin when execute() was entered
  events,      \* side effects and prompts issued so far, in order
  visited,     \* the steps entered so far, in order
  ri,          \* createBranchRestrictions: index of the next restriction
  resp,        \* createBranchRestrictions: response to the last request
  report,      \* createBranchRestrictions: how the last request was logged
  ciFile,      \* working-tree content of bitbucket-pipelines.yml
  ciIndex,     \* content of bitbucket-pipelines.yml in the git index
  ciAtStart,   \* ciFile when execute() was entered
  pkg,         \* package.json: "absent", "malformed" or "valid"
  pkgPatch,    \* patch number of package.json's version
  tags,        \* patch numbers n for which tag v1.0.n exists
  pushOps,     \* the push operations so far, each a sequence of attempts
  failedStep,  \* the step whose error reached execute()'s catch, or "none"
  runNo,       \* which run of the command in this working tree: 1, 2, ...
  wf,          \* workflow rewriter state (see SpecWf)
  pd,          \* PlatformDetector state (see SpecDetect)
  au,          \* credentials and request log (see SpecAuth)
  vt,          \* promptVersionTag on version texts (see SpecTag)
  bp,          \* BitbucketProvider.createBranchProtection (see SpecProvider)
  sf           \* ServiceFactory and its callers (see SpecFactory)

vars == <<pc, force, dryRun, exitCode, origin, startOrigin, events, visited,
          ri, resp, report, ciFile, ciIndex, ciAtStart, pkg, pkgPatch, tags,
          pushOps, failedStep, runNo, wf, pd, au, vt, bp, sf>>

(***************************************************************************)
(* Git remote URLs.  A URL is a record so that the regular expressions of  *)
(* the code can be evaluated on its parts.                                 *)
(***************************************************************************)
NoRemote == [scheme |-> "none", host |-> "", owner |-> "", repo |-> "", git |-> FALSE]

Url(s, h, o, r, g) == [scheme |-> s, host |-> h, owner |-> o, repo |-> r, git |-> g]

RemoteUrls ==
  { Url("ssh",   "bitbucket.org",      "acme", "widgets", TRUE),
    Url("ssh",   "bitbucket-personal", "acme", "widgets", TRUE),
    Url("ssh",   "bitbucket-work",     "acme", "widgets", FALSE),
    Url("https", "bitbucket.org",      "acme", "widgets", TRUE),
    Url("ssh",   "bitbucket.org",      "acme", "my.repo", TRUE),
    Url("https", "github.com",         "acme", "widgets", TRUE),
    Url("ssh",   "github.com",         "acme", "widgets", TRUE),
    NoRemote }

\* repository names that contain a '.', which [^/.]+? cannot match
DottedRepos == {"my.repo"}

\* /^git@(?!bitbucket\.org)[^:]+:(.+\/.+)$/
customAliasMatch(u) == u.scheme = "ssh" /\ u.host # "bitbucket.org"

\* `git@bitbucket.org:${customAliasMatch[1]}`
normalizedUrl(u) == [u EXCEPT !.host = "bitbucket.org"]

\* The URL left in .git/config by normalizeGitRemote.
normalizeGitRemote(u) ==
  IF u # NoRemote /\ customAliasMatch(u) THEN normalizedUrl(u) ELSE u

\* The value normalizeGitRemote returns: the original URL, or null.
normalizeReturns(u) ==
  IF u # NoRemote /\ customAliasMatch(u) THEN u ELSE NoRemote

restoreGitRemote_skip(cur, originalUrl) == cur

\* restoreGitRemote: `git remote set-url origin "${originalUrl}"`
restoreGitRemote(cur, originalUrl) == originalUrl

\* getRepositoryInfo's two patterns: Bitbucket HTTPS and Bitbucket SSH.
isBitbucketRemote(u) ==
  /\ u # NoRemote
  /\ u.scheme \in {"ssh", "https"}
  /\ u.host = "bitbucket.org"

\* pushToRemote: /[:\/]([^/]+)\/([^/.]+?)(?:\.git)?$/
pushUrlMatch(u) == u # NoRemote /\ u.repo \notin DottedRepos

\* `git@bitbucket-personal:${match[1]}/${match[2]}.git`
personalUrl(u) == Url("ssh", "bitbucket-personal", u.owner, u.repo, TRUE)

(***************************************************************************)
(* Helpers on the event log.                                               *)
(***************************************************************************)
Steps == <<"VerifyGitRepo", "Authenticate", "DetectRepository",
           "CheckAdminAccess", "ResolveDefaultBranch", "Confirm",
           "ConfigureRepositorySettings", "CreateBranchProtection",
           "EnableCiPlatformFeature", "NpmTokenGuidance",
           "MaterializeCiConfigFile", "ProvisionPublishingSecret",
           "CommitAndPush", "OptionalReleaseTag">>

StepNo(s) == CHOOSE i \in 1..Len(Steps) : Steps[i] = s

Has(e) == \E i \in 1..Len(events) : events[i] = e

HasAny(S) == \E i \in 1..Len(events) : events[i] \in S

CountOf(e) == Cardinality({i \in 1..Len(events) : events[i] = e})

ApiMutations == {"PUT settings", "POST restriction", "PUT pipelines",
                 "POST variable", "PUT variable"}

FileWrites == {"write ci", "write package.json"}

GitMutations == {"commit", "tag", "push", "push --tags"}

RemoteRewrites == {"set-url normalized", "set-url restore", "set-url alias",
                   "set-url original"}

Prompts == {"prompt proceed", "prompt overwrite", "prompt setupNpm",
            "prompt npmToken", "prompt bumpAndTag", "prompt createTag"}

(***************************************************************************)
(* Initial state: the options of one run and the repository it runs in.    *)
(***************************************************************************)
NoResp == [status |-> 0, body |-> "none"]

CiStates == { <<"none", "none">>, <<"gen", "gen">>, <<"other", "other">>,
              <<"other", "none">>, <<"gen", "other">> }

\* How many times the command is run in one working tree.
MaxRuns == 2

WfIdle == [phase |-> "idle"]

PdIdle == [phase |-> "idle"]

AuIdle == [phase |-> "idle"]

VtIdle == [phase |-> "idle"]

BpIdle == [phase |-> "idle"]

SfIdle == [phase |-> "idle"]

Init ==
  /\ pc = "VerifyGitRepo"
  /\ force \in BOOLEAN
  /\ dryRun \in BOOLEAN
  /\ exitCode = -1
  /\ origin \in RemoteUrls
  /\ startOrigin = origin
  /\ events = <<>>
  /\ visited = <<>>
  /\ ri = 0
  /\ resp = NoResp
  /\ report = "none"
  /\ \E c \in CiStates : ciFile = c[1] /\ ciIndex = c[2] /\ ciAtStart = c[1]
  /\ pkg \in {"absent", "malformed", "valid"}
  /\ pkgPatch = 0
  /\ tags \in {{}, {0}}
  /\ pushOps = <<>>
  /\ failedStep = "none"
  /\ runNo = 1
  /\ wf = WfIdle
  /\ pd = PdIdle
  /\ au = AuIdle
  /\ vt = VtIdle
  /\ bp = BpIdle
  /\ sf = SfIdle

(***************************************************************************)
(* execute(): control transfers.                                           *)
(***************************************************************************)
\* process.exit(1), directly or from execute()'s catch block
Fatal(step) ==
  /\ pc' = "done"
  /\ exitCode' = 1
  /\ failedStep' = step

Goto(next) ==
  /\ pc' = next
  /\ UNCHANGED <<exitCode, failedStep>>

Enter(step) == visited' = Append(visited, step)

\* isInsideGitRepo(); printCloneGuidance(); process.exit(1)
VerifyGitRepo ==
  /\ pc = "VerifyGitRepo"
  /\ Enter("VerifyGitRepo")
  /\ \E isGitRepo \in BOOLEAN :
       IF isGitRepo THEN Goto("Authenticate") ELSE Fatal("VerifyGitRepo")
  /\ UNCHANGED <<force, dryRun, origin, startOrigin, events, ri, resp, report,
                 ciFile, ciIndex, ciAtStart, pkg, pkgPatch, tags, pushOps, runNo, wf, pd, au, vt, bp, sf>>

\* getCredentials() exits when no token is set; validateAuth() is a GET that
\* throws on a non-2xx answer.
Authenticate ==
  /\ pc = "Authenticate"
  /\ Enter("Authenticate")
  /\ \E hasToken \in BOOLEAN, authOk \in BOOLEAN :
       IF hasToken /\ authOk THEN Goto("DetectRepository")
       ELSE Fatal("Authenticate")
  /\ UNCHANGED <<force, dryRun, origin, startOrigin, events, ri, resp, report,
                 ciFile, ciIndex, ciAtStart, pkg, pkgPatch, tags, pushOps, runNo, wf, pd, au, vt, bp, sf>>

\* detectRepository(): normalizeGitRemote, getRepositoryInfo (reads
\* .git/config, may throw), and restoreGitRemote in the finally block.
detectRepository ==
  /\ pc = "DetectRepository"
  /\ Enter("DetectRepository")
  /\ LET originalRemote == normalizeReturns(origin)
         normalized == normalizeGitRemote(origin)
         evNorm == IF originalRemote # NoRemote
                   THEN <<"set-url normalized">> ELSE <<>>
         evRest == IF originalRemote # NoRemote
                   THEN <<"set-url restore">> ELSE <<>>
     IN \E readOk \in BOOLEAN :
          /\ origin' = IF originalRemote # NoRemote
                       THEN restoreGitRemote(normalized, originalRemote)
                       ELSE normalized
          /\ events' = events \o evNorm \o evRest
          /\ IF readOk /\ isBitbucketRemote(normalized)
             THEN Goto("CheckAdminAccess")
             ELSE Fatal("DetectRepository")
  /\ UNCHANGED <<force, dryRun, startOrigin, ri, resp, report,
                 ciFile, ciIndex, ciAtStart, pkg, pkgPatch, tags, pushOps, runNo, wf, pd, au, vt, bp, sf>>

\* What the permissions request was answered with: the request failed, or
\* the list of values was empty, or its first value named the permission.
permissionsAnswer(apiOk, permission) ==
  IF ~apiOk THEN "permissions error"
  ELSE CASE permission = "none" -> "permissions empty"
         [] permission = "read" -> "permissions read"
         [] permission = "write" -> "permissions write"
         [] OTHER -> "permissions admin"

checkRepositoryPermissions_failOpen(apiOk, permission) ==
  IF apiOk /\ permission # "none"
  THEN [admin |-> permission = "admin",
        push  |-> permission \in {"admin", "write"},
        pull  |-> TRUE]
  ELSE [admin |-> TRUE, push |-> TRUE, pull |-> TRUE]

\* checkRepositoryPermissions answers {admin: false, ...} on any API error.
checkRepositoryPermissions(apiOk, permission) ==
  IF apiOk /\ permission # "none"
  THEN [admin |-> permission = "admin",
        push  |-> permission \in {"admin", "write"},
        pull  |-> TRUE]
  ELSE [admin |-> FALSE, push |-> FALSE, pull |-> TRUE]

checkAdminAccess_noGate ==
  /\ pc = "CheckAdminAccess"
  /\ Enter("CheckAdminAccess")
  /\ \E apiOk \in BOOLEAN, permission \in {"admin", "write", "read", "none"} :
       LET permissions == checkRepositoryPermissions(apiOk, permission)
       IN /\ events' = events \o
                      <<permissionsAnswer(apiOk, permission),
                        IF permissions.admin THEN "admin yes" ELSE "admin no">>
          /\ Goto("ResolveDefaultBranch")
  /\ UNCHANGED <<force, dryRun, origin, startOrigin, ri, resp, report,
                 ciFile, ciIndex, ciAtStart, pkg, pkgPatch, tags, pushOps, runNo, wf, pd, au, vt, bp, sf>>

\* checkAdminAccess(): process.exit(1) unless permissions.admin
checkAdminAccess ==
  /\ pc = "CheckAdminAccess"
  /\ Enter("CheckAdminAccess")
  /\ \E apiOk \in BOOLEAN, permission \in {"admin", "write", "read", "none"} :
       LET permissions == checkRepositoryPermissions(apiOk, permission)
       IN /\ events' = events \o
                      <<permissionsAnswer(apiOk, permission),
                        IF permissions.admin THEN "admin yes" ELSE "admin no">>
          /\ IF permissions.admin THEN Goto("ResolveDefaultBranch")
             ELSE Fatal("CheckAdminAccess")
  /\ UNCHANGED <<force, dryRun, origin, startOrigin, ri, resp, report,
                 ciFile, ciIndex, ciAtStart, pkg, pkgPatch, tags, pushOps, runNo, wf, pd, au, vt, bp, sf>>

\* getDefaultBranch(): a GET; its error reaches execute()'s catch block.
getDefaultBranch ==
  /\ pc = "ResolveDefaultBranch"
  /\ Enter("ResolveDefaultBranch")
  /\ \E apiOk \in BOOLEAN :
       IF apiOk THEN Goto("Confirm") ELSE Fatal("ResolveDefaultBranch")
  /\ UNCHANGED <<force, dryRun, origin, startOrigin, events, ri, resp, report,
                 ciFile, ciIndex, ciAtStart, pkg, pkgPatch, tags, pushOps, runNo, wf, pd, au, vt, bp, sf>>

Confirm_ignoreAnswer ==
  /\ pc = "Confirm"
  /\ Enter("Confirm")
  /\ IF force
     THEN /\ Goto("ConfigureRepositorySettings")
          /\ UNCHANGED events
     ELSE \E proceed \in BOOLEAN :
            /\ events' = events \o <<"prompt proceed">>
                           \o (IF proceed THEN <<>> ELSE <<"cancelled">>)
            /\ Goto("ConfigureRepositorySettings")
  /\ UNCHANGED <<force, dryRun, origin, startOrigin, ri, resp, report,
                 ciFile, ciIndex, ciAtStart, pkg, pkgPatch, tags, pushOps, runNo, wf, pd, au, vt, bp, sf>>

\* execute() lines 55-63: the confirmation prompt; `return` on "no".
Confirm ==
  /\ pc = "Confirm"
  /\ Enter("Confirm")
  /\ IF force
     THEN /\ Goto("ConfigureRepositorySettings")
          /\ UNCHANGED events
     ELSE \E proceed \in BOOLEAN :
            /\ events' = events \o <<"prompt proceed">>
                           \o (IF proceed THEN <<>> ELSE <<"cancelled">>)
            /\ IF proceed
               THEN Goto("ConfigureRepositorySettings")
               ELSE /\ pc' = "done"
                    /\ exitCode' = 0
                    /\ UNCHANGED failedStep
  /\ UNCHANGED <<force, dryRun, origin, startOrigin, ri, resp, report,
                 ciFile, ciIndex, ciAtStart, pkg, pkgPatch, tags, pushOps, runNo, wf, pd, au, vt, bp, sf>>

configureRepositorySettings_swallow ==
  /\ pc = "ConfigureRepositorySettings"
  /\ Enter("ConfigureRepositorySettings")
  /\ IF dryRun
     THEN /\ Goto("CreateBranchProtection")
          /\ UNCHANGED events
     ELSE \E apiOk \in BOOLEAN :
            /\ events' = events \o <<"PUT settings">>
                           \o (IF apiOk THEN <<>> ELSE <<"settings error">>)
            /\ Goto("CreateBranchProtection")
  /\ UNCHANGED <<force, dryRun, origin, startOrigin, ri, resp, report,
                 ciFile, ciIndex, ciAtStart, pkg, pkgPatch, tags, pushOps, runNo, wf, pd, au, vt, bp, sf>>

\* configureRepositorySettings(): PUT /repositories/{w}/{r}; the catch logs
\* the error ("settings error") and rethrows it to execute()'s catch.
configureRepositorySettings ==
  /\ pc = "ConfigureRepositorySettings"
  /\ Enter("ConfigureRepositorySettings")
  /\ IF dryRun
     THEN /\ Goto("CreateBranchProtection")
          /\ UNCHANGED events
     ELSE \E apiOk \in BOOLEAN :
            /\ events' = events \o <<"PUT settings">>
                           \o (IF apiOk THEN <<>> ELSE <<"settings error">>)
            /\ IF apiOk THEN Goto("CreateBranchProtection")
               ELSE Fatal("ConfigureRepositorySettings")
  /\ UNCHANGED <<force, dryRun, origin, startOrigin, ri, resp, report,
                 ciFile, ciIndex, ciAtStart, pkg, pkgPatch, tags, pushOps, runNo, wf, pd, au, vt, bp, sf>>

(***************************************************************************)
(* BitbucketService.request and the branch-restriction loop.               *)
(***************************************************************************)
\* The answers to a creation request: fetch itself rejects (status 0, the
\* message is fetch's own), or the API answers 2xx, or a non-2xx status
\* whose body is not JSON / has no error.message ("nonjson"), or is JSON
\* with an error.message that contains 'already exists', or another message.
Responses ==
  {[status |-> 201, body |-> "ok"], [status |-> 0, body |-> "fetch failed"]}
  \cup
  [status : {409, 403}, body : {"nonjson", "already exists", "other message"}]

responseOk(r) == r.status >= 200 /\ r.status <= 299

\* request(): message = parsed.error.message when the body has one, else
\* `Bitbucket API error: ${status} ${statusText}`.
messageIsDefault(r) == r.body = "nonjson"

\* msg.includes('409')
msgIncludes409(r) == messageIsDefault(r) /\ r.status = 409

\* msg.includes('already exists')
msgIncludesAlreadyExists(r) ==
  ~messageIsDefault(r) /\ r.body = "already exists"

\* The restrictions array of createBranchRestrictions.
restrictions == <<"require_approvals_to_merge",
                  "require_passing_builds_to_merge">>

\* The log line chosen for one restriction by the try/catch of the loop.
restrictionReport(r) ==
  IF responseOk(r) THEN "created"
  ELSE IF msgIncludesAlreadyExists(r) \/ msgIncludes409(r) THEN "info"
  ELSE "error"

\* What the loop's catch prints on console.error for one restriction.
restrictionLog(r) ==
  IF restrictionReport(r) = "error" THEN <<"restriction error">> ELSE <<>>

\* createBranchRestrictions() under dryRun: nothing is requested.
createBranchRestrictionsDryRun ==
  /\ pc = "CreateBranchProtection"
  /\ dryRun
  /\ Enter("CreateBranchProtection")
  /\ Goto("EnableCiPlatformFeature")
  /\ UNCHANGED <<force, dryRun, origin, startOrigin, events, ri, resp, report,
                 ciFile, ciIndex, ciAtStart, pkg, pkgPatch, tags, pushOps, runNo, wf, pd, au, vt, bp, sf>>

createBranchRestriction_abort ==
  /\ pc = "CreateBranchProtection"
  /\ ~dryRun
  /\ ri < Len(restrictions)
  /\ visited' = IF ri = 0 THEN Append(visited, "CreateBranchProtection")
                ELSE visited
  /\ \E r \in Responses :
       /\ resp' = r
       /\ report' = restrictionReport(r)
       /\ events' = events \o <<"POST restriction">> \o restrictionLog(r)
       /\ IF restrictionReport(r) = "error"
          THEN Fatal("CreateBranchProtection")
          ELSE Goto("CreateBranchProtection")
  /\ ri' = ri + 1
  /\ UNCHANGED <<force, dryRun, origin, startOrigin,
                 ciFile, ciIndex, ciAtStart, pkg, pkgPatch, tags, pushOps, runNo, wf, pd, au, vt, bp, sf>>

\* One iteration of `for (const restriction of restrictions)`: the request,
\* then the log line of the inner try/catch; nothing is rethrown.
createBranchRestriction ==
  /\ pc = "CreateBranchProtection"
  /\ ~dryRun
  /\ ri < Len(restrictions)
  /\ visited' = IF ri = 0 THEN Append(visited, "CreateBranchProtection")
                ELSE visited
  /\ \E r \in Responses :
       /\ resp' = r
       /\ report' = restrictionReport(r)
       /\ events' = events \o <<"POST restriction">> \o restrictionLog(r)
  /\ ri' = ri + 1
  /\ Goto("CreateBranchProtection")
  /\ UNCHANGED <<force, dryRun, origin, startOrigin,
                 ciFile, ciIndex, ciAtStart, pkg, pkgPatch, tags, pushOps, runNo, wf, pd, au, vt, bp, sf>>

\* The loop is over: the locals of createBranchRestrictions go out of scope.
createBranchRestrictionsDone ==
  /\ pc = "CreateBranchProtection"
  /\ ~dryRun
  /\ ri = Len(restrictions)
  /\ ri' = 0
  /\ resp' = NoResp
  /\ report' = "none"
  /\ Goto("EnableCiPlatformFeature")
  /\ UNCHANGED <<force, dryRun, origin, startOrigin, events, visited,
                 ciFile, ciIndex, ciAtStart, pkg, pkgPatch, tags, pushOps, runNo, wf, pd, au, vt, bp, sf>>

\* enablePipelines(): PUT pipelines_config; every error is caught and logged.
enablePipelines ==
  /\ pc = "EnableCiPlatformFeature"
  /\ Enter("EnableCiPlatformFeature")
  /\ events' = IF dryRun THEN events ELSE Append(events, "PUT pipelines")
  /\ Goto("NpmTokenGuidance")
  /\ UNCHANGED <<force, dryRun, origin, startOrigin, ri, resp, report,
                 ciFile, ciIndex, ciAtStart, pkg, pkgPatch, tags, pushOps, runNo, wf, pd, au, vt, bp, sf>>

\* setupNpmTokenGuidance(): checkPath, then console output only.
setupNpmTokenGuidance ==
  /\ pc = "NpmTokenGuidance"
  /\ Enter("NpmTokenGuidance")
  /\ Goto("MaterializeCiConfigFile")
  /\ UNCHANGED <<force, dryRun, origin, startOrigin, events, ri, resp, report,
                 ciFile, ciIndex, ciAtStart, pkg, pkgPatch, tags, pushOps, runNo, wf, pd, au, vt, bp, sf>>

createPipelinesFile_noCompare ==
  /\ pc = "MaterializeCiConfigFile"
  /\ Enter("MaterializeCiConfigFile")
  /\ IF pkg = "malformed"
     THEN /\ Fatal("MaterializeCiConfigFile")
          /\ UNCHANGED <<events, ciFile>>
     ELSE \E overwrite \in BOOLEAN, writeOk \in BOOLEAN :
            LET asked == ciFile # "none" /\ ~force
                evAsk == IF asked THEN <<"prompt overwrite">> ELSE <<>>
            IN IF asked /\ ~overwrite
               THEN /\ events' = events \o evAsk
                    /\ Goto("ProvisionPublishingSecret")
                    /\ UNCHANGED ciFile
               ELSE IF dryRun
               THEN /\ events' = events \o evAsk
                    /\ Goto("ProvisionPublishingSecret")
                    /\ UNCHANGED ciFile
               ELSE /\ events' = events \o evAsk \o <<"write ci">>
                    /\ IF writeOk
                       THEN /\ ciFile' = "gen"
                            /\ Goto("ProvisionPublishingSecret")
                       ELSE /\ UNCHANGED ciFile
                            /\ Fatal("MaterializeCiConfigFile")
  /\ UNCHANGED <<force, dryRun, origin, startOrigin, ri, resp, report,
                 ciIndex, ciAtStart, pkg, pkgPatch, tags, pushOps, runNo, wf, pd, au, vt, bp, sf>>

\* createPipelinesFile(): no try/catch of its own.  generatePipelinesYaml
\* JSON.parses package.json; writeFileSync may throw.
createPipelinesFile ==
  /\ pc = "MaterializeCiConfigFile"
  /\ Enter("MaterializeCiConfigFile")
  /\ IF pkg = "malformed"
     THEN /\ Fatal("MaterializeCiConfigFile")
          /\ UNCHANGED <<events, ciFile>>
     ELSE IF ciFile = "gen"
     THEN /\ Goto("ProvisionPublishingSecret")
          /\ UNCHANGED <<events, ciFile>>
     ELSE \E overwrite \in BOOLEAN, writeOk \in BOOLEAN :
            LET asked == ciFile # "none" /\ ~force
                evAsk == IF asked THEN <<"prompt overwrite">> ELSE <<>>
            IN IF asked /\ ~overwrite
               THEN /\ events' = events \o evAsk
                    /\ Goto("ProvisionPublishingSecret")
                    /\ UNCHANGED ciFile
               ELSE IF dryRun
               THEN /\ events' = events \o evAsk
                    /\ Goto("ProvisionPublishingSecret")
                    /\ UNCHANGED ciFile
               ELSE /\ events' = events \o evAsk \o <<"write ci">>
                    /\ IF writeOk
                       THEN /\ ciFile' = "gen"
                            /\ Goto("ProvisionPublishingSecret")
                       ELSE /\ UNCHANGED ciFile
                            /\ Fatal("MaterializeCiConfigFile")
  /\ UNCHANGED <<force, dryRun, origin, startOrigin, ri, resp, report,
                 ciIndex, ciAtStart, pkg, pkgPatch, tags, pushOps, runNo, wf, pd, au, vt, bp, sf>>

npmVariableEvents_blindUpdate(setupNpm, npmToken, create, list, update) ==
  <<"prompt setupNpm">> \o
  (IF ~setupNpm THEN <<>>
   ELSE <<"prompt npmToken">> \o
     (IF ~npmToken THEN <<>>
      ELSE <<"POST variable">> \o
        (IF create = "ok" THEN <<"variable set">>
         ELSE IF create # "409" THEN <<"variable error">>
         ELSE <<"variable exists", "PUT variable">> \o
              (IF update = "ok" THEN <<"variable updated">>
               ELSE <<"variable unchanged">>))))

\* The prompts, requests and log lines of setupNpmRepositoryVariable once it
\* is past its guards, for the user's answers and the API's answers.
\* create: the POST is answered 2xx, 409, another status, or fetch rejects;
\* list: the GET is answered with a list holding the NPM_TOKEN record, with
\* a list without it, or not 2xx; update: the PUT is answered 2xx or not.
npmVariableEvents(setupNpm, npmToken, create, list, update) ==
  <<"prompt setupNpm">> \o
  (IF ~setupNpm THEN <<>>
   ELSE <<"prompt npmToken">> \o
     (IF ~npmToken THEN <<>>
      ELSE <<"POST variable">> \o
        (IF create = "ok" THEN <<"variable set">>
         ELSE IF create # "409" THEN <<"variable error">>
         ELSE <<"variable exists", "GET variables">> \o
           (IF list # "found" THEN <<"variable unchanged">>
            ELSE <<"PUT variable">> \o
              (IF update = "ok" THEN <<"variable updated">>
               ELSE <<"variable unchanged">>)))))

setupNpmRepositoryVariable_noForceGuard ==
  /\ pc = "ProvisionPublishingSecret"
  /\ Enter("ProvisionPublishingSecret")
  /\ IF pkg = "absent" \/ dryRun
     THEN UNCHANGED events
     ELSE \E setupNpm \in BOOLEAN, npmToken \in BOOLEAN,
             create \in {"ok", "409", "error", "throw"},
             list \in {"found", "missing", "error"},
             update \in {"ok", "error"} :
            events' = events \o
                      npmVariableEvents(setupNpm, npmToken, create, list, update)
  /\ Goto("CommitAndPush")
  /\ UNCHANGED <<force, dryRun, origin, startOrigin, ri, resp, report,
                 ciFile, ciIndex, ciAtStart, pkg, pkgPatch, tags, pushOps, runNo, wf, pd, au, vt, bp, sf>>

\* setupNpmRepositoryVariable(): returns early without package.json, under
\* dryRun and under force; every request error is caught inside.
setupNpmRepositoryVariable ==
  /\ pc = "ProvisionPublishingSecret"
  /\ Enter("ProvisionPublishingSecret")
  /\ IF pkg = "absent" \/ dryRun \/ force
     THEN UNCHANGED events
     ELSE \E setupNpm \in BOOLEAN, npmToken \in BOOLEAN,
             create \in {"ok", "409", "error", "throw"},
             list \in {"found", "missing", "error"},
             update \in {"ok", "error"} :
            events' = events \o
                      npmVariableEvents(setupNpm, npmToken, create, list, update)
  /\ Goto("CommitAndPush")
  /\ UNCHANGED <<force, dryRun, origin, startOrigin, ri, resp, report,
                 ciFile, ciIndex, ciAtStart, pkg, pkgPatch, tags, pushOps, runNo, wf, pd, au, vt, bp, sf>>

(***************************************************************************)
(* Pushing: pushToRemote, commitAndPushChanges, promptVersionTag.          *)
(***************************************************************************)
Attempt(cmd, via, ok) == [cmd |-> cmd, via |-> via, ok |-> ok]

\* pushToRemote(): `git push`; on failure rewrite origin to the
\* bitbucket-personal alias and push again; the original URL is written
\* back in the catch block of the retry only.
\* o1, o2: whether the first push and the retry succeed.
pushToRemote(u, o1, o2) ==
  IF o1
  THEN [origin |-> u,
        attempts |-> <<Attempt("push", "origin", TRUE)>>,
        ev |-> <<"push">>]
  ELSE IF ~pushUrlMatch(u)
  THEN [origin |-> u,
        attempts |-> <<Attempt("push", "origin", FALSE)>>,
        ev |-> <<"push">>]
  ELSE IF o2
  THEN [origin |-> personalUrl(u),
        attempts |-> <<Attempt("push", "origin", FALSE),
                       Attempt("push", "alias", TRUE)>>,
        ev |-> <<"push", "set-url alias", "push">>]
  ELSE [origin |-> u,
        attempts |-> <<Attempt("push", "origin", FALSE),
                       Attempt("push", "alias", FALSE)>>,
        ev |-> <<"push", "set-url alias", "push", "set-url original">>]

\* `git ls-files --others --exclude-standard -- bitbucket-pipelines.yml`
hasUntracked == ciFile # "none" /\ ciIndex = "none"

\* `git diff --quiet -- bitbucket-pipelines.yml` exits non-zero
hasModified == ciIndex # "none" /\ ciFile # ciIndex

commitAndPushChanges_wholeTree ==
  /\ pc = "CommitAndPush"
  /\ Enter("CommitAndPush")
  /\ IF dryRun
     THEN UNCHANGED <<events, ciIndex, origin, pushOps>>
     ELSE \E otherDirty \in BOOLEAN, commitOk \in BOOLEAN,
             o1 \in BOOLEAN, o2 \in BOOLEAN :
            LET seen == IF otherDirty THEN <<"other paths dirty">> ELSE <<>>
            IN IF ~hasUntracked /\ ~hasModified /\ ~otherDirty
               THEN /\ events' = events \o seen
                    /\ UNCHANGED <<ciIndex, origin, pushOps>>
               ELSE /\ ciIndex' = ciFile
                    /\ IF ~commitOk
                       THEN /\ events' = events \o seen \o <<"commit">>
                            /\ UNCHANGED <<origin, pushOps>>
                       ELSE LET p == pushToRemote(origin, o1, o2)
                            IN /\ events' = events \o seen \o <<"commit">>
                                              \o p.ev
                               /\ origin' = p.origin
                               /\ pushOps' = Append(pushOps, p.attempts)
  /\ Goto("OptionalReleaseTag")
  /\ UNCHANGED <<force, dryRun, startOrigin, ri, resp, report,
                 ciFile, ciAtStart, pkg, pkgPatch, tags, runNo, wf, pd, au, vt, bp, sf>>

\* commitAndPushChanges(): everything after the dryRun guard is inside one
\* try/catch.  Both git queries name bitbucket-pipelines.yml only; whether
\* other paths of the working tree are modified (otherDirty, noted in the
\* log as "other paths dirty") is never asked.
commitAndPushChanges ==
  /\ pc = "CommitAndPush"
  /\ Enter("CommitAndPush")
  /\ IF dryRun
     THEN UNCHANGED <<events, ciIndex, origin, pushOps>>
     ELSE \E otherDirty \in BOOLEAN, commitOk \in BOOLEAN,
             o1 \in BOOLEAN, o2 \in BOOLEAN :
            LET seen == IF otherDirty THEN <<"other paths dirty">> ELSE <<>>
            IN IF ~hasUntracked /\ ~hasModified
               THEN /\ events' = events \o seen
                    /\ UNCHANGED <<ciIndex, origin, pushOps>>
               ELSE /\ ciIndex' = ciFile
                    /\ IF ~commitOk
                       THEN /\ events' = events \o seen \o <<"commit">>
                            /\ UNCHANGED <<origin, pushOps>>
                       ELSE LET p == pushToRemote(origin, o1, o2)
                            IN /\ events' = events \o seen \o <<"commit">>
                                              \o p.ev
                               /\ origin' = p.origin
                               /\ pushOps' = Append(pushOps, p.attempts)
  /\ Goto("OptionalReleaseTag")
  /\ UNCHANGED <<force, dryRun, startOrigin, ri, resp, report,
                 ciFile, ciAtStart, pkg, pkgPatch, tags, runNo, wf, pd, au, vt, bp, sf>>

\* promptVersionTag(), lines 160-200: the tag of the current version exists.
\* After pushToRemote, `git push --tags` is tried and, on failure, tried once
\* more.
bumpFlow(writeOk, commitOk, tagOk, o1, o2, t1, t2) ==
  LET nextPatch == pkgPatch + 1
      p == pushToRemote(origin, o1, o2)
      via == IF p.origin = origin THEN "origin" ELSE "alias"
      tagOp == IF t1 THEN <<Attempt("push --tags", via, TRUE)>>
               ELSE <<Attempt("push --tags", via, FALSE),
                      Attempt("push --tags", via, t2)>>
      tagEv == IF t1 THEN <<"push --tags">>
               ELSE <<"push --tags", "push --tags">>
  IN /\ IF ~writeOk
        THEN /\ events' = events \o <<"prompt bumpAndTag", "write package.json">>
             /\ UNCHANGED <<pkgPatch, tags, origin, pushOps>>
        ELSE /\ pkgPatch' = nextPatch
             /\ IF ~commitOk
                THEN /\ events' = events \o <<"prompt bumpAndTag",
                                             "write package.json", "commit">>
                     /\ UNCHANGED <<tags, origin, pushOps>>
                ELSE IF ~tagOk
                THEN /\ events' = events \o <<"prompt bumpAndTag",
                                         "write package.json", "commit", "tag">>
                     /\ UNCHANGED <<tags, origin, pushOps>>
                ELSE /\ events' = events \o <<"prompt bumpAndTag",
                                         "write package.json", "commit", "tag">>
                                    \o p.ev \o tagEv
                     /\ tags' = tags \cup {nextPatch}
                     /\ origin' = p.origin
                     /\ pushOps' = pushOps \o <<p.attempts, tagOp>>

\* promptVersionTag(), lines 203-231: no tag of the current version.  When
\* `git push --tags` fails, pushToRemote runs and `git push --tags` is run
\* again, whatever pushToRemote achieved.
createTagFlow(tagOk, o1, o2, t1, t2) ==
  LET p == pushToRemote(origin, o1, o2)
      via == IF p.origin = origin THEN "origin" ELSE "alias"
  IN IF ~tagOk
     THEN /\ events' = events \o <<"prompt createTag", "tag">>
          /\ UNCHANGED <<pkgPatch, tags, origin, pushOps>>
     ELSE /\ tags' = tags \cup {pkgPatch}
          /\ UNCHANGED pkgPatch
          /\ IF t1
             THEN /\ events' = events \o <<"prompt createTag", "tag",
                                          "push --tags">>
                  /\ pushOps' = Append(pushOps,
                                  <<Attempt("push --tags", "origin", TRUE)>>)
                  /\ UNCHANGED origin
             ELSE /\ events' = events \o <<"prompt createTag", "tag",
                                          "push --tags">> \o p.ev
                                 \o <<"push --tags">>
                  /\ pushOps' = Append(pushOps,
                                  <<Attempt("push --tags", "origin", FALSE)>>
                                  \o p.attempts
                                  \o <<Attempt("push --tags", via, t2)>>)
                  /\ origin' = p.origin

\* promptVersionTag(): returns early under dryRun, under force and without
\* package.json; JSON.parse of package.json is outside its try blocks.
promptVersionTag ==
  /\ pc = "OptionalReleaseTag"
  /\ Enter("OptionalReleaseTag")
  /\ IF dryRun \/ force \/ pkg = "absent"
     THEN /\ UNCHANGED <<events, pkgPatch, tags, origin, pushOps>>
          /\ Goto("Summary")
     ELSE IF pkg = "malformed"
     THEN /\ UNCHANGED <<events, pkgPatch, tags, origin, pushOps>>
          /\ Fatal("OptionalReleaseTag")
     ELSE /\ Goto("Summary")
          /\ \E yes \in BOOLEAN, writeOk \in BOOLEAN, commitOk \in BOOLEAN,
                tagOk \in BOOLEAN, o1 \in BOOLEAN, o2 \in BOOLEAN,
                t1 \in BOOLEAN, t2 \in BOOLEAN :
               IF pkgPatch \in tags
               THEN IF yes
                    THEN bumpFlow(writeOk, commitOk, tagOk, o1, o2, t1, t2)
                    ELSE /\ events' = Append(events, "prompt bumpAndTag")
                         /\ UNCHANGED <<pkgPatch, tags, origin, pushOps>>
               ELSE IF yes
                    THEN createTagFlow(tagOk, o1, o2, t1, t2)
                    ELSE /\ events' = Append(events, "prompt createTag")
                         /\ UNCHANGED <<pkgPatch, tags, origin, pushOps>>
  /\ UNCHANGED <<force, dryRun, startOrigin, ri, resp, report,
                 ciFile, ciIndex, ciAtStart, pkg, runNo, wf, pd, au, vt, bp, sf>>

\* The checked lines of printSummary(): the same four on every call, each
\* paired here with the step it speaks of.
summaryLines ==
  <<[line |-> "Repository settings configured",
     step |-> "ConfigureRepositorySettings"],
    [line |-> "Branch restrictions", step |-> "CreateBranchProtection"],
    [line |-> "bitbucket-pipelines.yml created",
     step |-> "MaterializeCiConfigFile"],
    [line |-> "Changes committed and pushed", step |-> "CommitAndPush"]>>

\* printSummary(), then execute() returns: the process ends with code 0.
printSummary ==
  /\ pc = "Summary"
  /\ pc' = "done"
  /\ exitCode' = 0
  /\ events' = Append(events, "summary")
  /\ UNCHANGED <<force, dryRun, origin, startOrigin, visited, ri, resp, report,
                 ciFile, ciIndex, ciAtStart, pkg, pkgPatch, tags, pushOps,
                 failedStep, runNo, wf, pd, au, vt, bp, sf>>

\* The command is invoked again in the same working tree, with options of
\* the caller's choice: a fresh BitbucketSetupCommand and a fresh execute().
\* What the previous process left on disk and in git stays; what belonged to
\* the process (its output, its locals, its exit code) starts anew.
rerun ==
  /\ pc = "done"
  /\ runNo < MaxRuns
  /\ runNo' = runNo + 1
  /\ pc' = "VerifyGitRepo"
  /\ force' \in BOOLEAN
  /\ dryRun' \in BOOLEAN
  /\ exitCode' = -1
  /\ startOrigin' = origin
  /\ ciAtStart' = ciFile
  /\ events' = <<>>
  /\ visited' = <<>>
  /\ pushOps' = <<>>
  /\ failedStep' = "none"
  /\ UNCHANGED <<origin, ri, resp, report, ciFile, ciIndex, pkg, pkgPatch,
                 tags, wf, pd, au, vt, bp, sf>>

Next ==
  \/ VerifyGitRepo
  \/ Authenticate
  \/ detectRepository
  \/ checkAdminAccess
  \/ getDefaultBranch
  \/ Confirm
  \/ configureRepositorySettings
  \/ createBranchRestrictionsDryRun
  \/ createBranchRestriction
  \/ createBranchRestrictionsDone
  \/ enablePipelines
  \/ setupNpmTokenGuidance
  \/ createPipelinesFile
  \/ setupNpmRepositoryVariable
  \/ commitAndPushChanges
  \/ promptVersionTag
  \/ printSummary
  \/ rerun

Spec == Init /\ [][Next]_vars

(***************************************************************************)
(* Properties of the setup orchestrator.                                   *)
(***************************************************************************)
Mutations == ApiMutations \cup FileWrites \cup GitMutations

IsPrefix(p, q) == Len(p) <= Len(q) /\ \A i \in 1..Len(p) : p[i] = q[i]

Entered(n) == Len(visited) >= n

\* C1: when a run of execute() returns control, the origin remote URL equals
\* the origin remote URL at the start of the run, whatever the outcome of
\* each push attempt.
C1_OriginRestoredAtExit == pc = "done" => origin = startOrigin

C3_NonAdminExitsBeforeMutation ==
  Has("admin no") =>
    /\ pc = "done"
    /\ exitCode = 1
    /\ ~HasAny(Mutations)

C3_Witness == Has("admin no") /\ exitCode = 1 /\ failedStep = "CheckAdminAccess"

\* C4: with dryRun set a run performs no mutating API call, no file write, no
\* rewrite of the git remote configuration, and no commit, push or tag, while
\* it visits the steps in the order of a live run.
C4_DryRunWritesNothing ==
  dryRun =>
    /\ ~HasAny(Mutations \cup RemoteRewrites)
    /\ IsPrefix(visited, Steps)

\* C5: a failure of a step in 8-14 is caught at the step boundary: the run
\* never ends with a non-zero exit code because of it.
C5_LateStepsNeverFatal ==
  (pc = "done" /\ exitCode # 0) => StepNo(failedStep) \notin 8..14

\* C7: a 409 answer to a branch-restriction creation request is reported as
\* informational ('already exists'), whatever the response body.
C7_ConflictIsInformational ==
  (pc = "CreateBranchProtection" /\ resp.status = 409) => report = "info"

\* C8: within one push operation, one further attempt - the retry through the
\* SSH host alias - follows a failed initial attempt, and nothing follows a
\* failed retry.
C8_SingleAliasRetry ==
  \A k \in 1..Len(pushOps) :
    LET op == pushOps[k]
    IN /\ Len(op) <= 2
       /\ Len(op) = 2 => (~op[1].ok /\ op[2].via = "alias")

\* C9: Confirm is skipped under force; otherwise the user is asked once, and
\* on 'no' the run ends with exit code 0 without entering any of steps 7-14
\* and without any mutating call, file write, commit, push or tag.
C9_ConfirmGate ==
  /\ force => ~Has("prompt proceed")
  /\ (~force /\ Entered(7)) => CountOf("prompt proceed") = 1
  /\ CountOf("prompt proceed") <= 1
  /\ Has("cancelled") =>
       /\ pc = "done"
       /\ exitCode = 0
       /\ ~Entered(7)
       /\ ~HasAny(Mutations)

C9_Witness == Has("cancelled") /\ exitCode = 0 /\ ~force

\* What C10 says of the prompts and of the two interactive steps.
C10_NoPromptNoInteractiveStep ==
  /\ ~HasAny(Prompts)
  /\ ~HasAny({"POST variable", "GET variables", "PUT variable"})
  /\ ~HasAny({"tag", "write package.json", "push --tags"})
  /\ runNo = 1 => pkgPatch = 0

\* C10 as written: under force no step prompts, an existing differing CI
\* file is overwritten without asking, and ProvisionPublishingSecret and
\* OptionalReleaseTag do nothing.
C10_ForceOriginal ==
  force =>
    /\ C10_NoPromptNoInteractiveStep
    /\ (ciAtStart = "other" /\ Entered(12)) => ciFile = "gen"

\* C10 amended: as C10, except that under dryRun the differing CI file is
\* left unchanged (still without asking).
C10_ForceAmended ==
  force =>
    /\ C10_NoPromptNoInteractiveStep
    /\ (ciAtStart = "other" /\ Entered(12)) =>
         ciFile = (IF dryRun THEN "other" ELSE "gen")

C10_Witness ==
  /\ force /\ ~dryRun
  /\ pkg = "valid"
  /\ ciAtStart = "other" /\ ciFile = "gen"
  /\ pc = "done" /\ exitCode = 0

(***************************************************************************)
(* The CI workflow rewriter: NpmService.updateWorkflowForOIDC.             *)
(* A file is a sequence of lines, each ending in a newline.  The lines are *)
(* drawn from a vocabulary, and each regular expression of the code is     *)
(* given by the set of vocabulary lines it matches.                        *)
(***************************************************************************)
MaxLines == 3

MaxCalls == 2

LName        == "name: Release"
LOn          == "on:"
LQuotedOn    == "'on':"
LPush        == "  push:"
LPermissions == "permissions:"
LContents    == "  contents: read"
LIdToken     == "  id-token: write"
LJobs        == "jobs:"
LPublish     == "      - run: npm publish"
LPublishProv == "      - run: npm publish --provenance"
LSemRel      == "      - run: npx semantic-release"
LEnv         == "        env:"
LNodeAuth    == "          NODE_AUTH_TOKEN: ${{ secrets.NPM_TOKEN }}"
LNodeAuthQ   == "          NODE_AUTH_TOKEN: '${{ secrets.NPM_TOKEN }}'"
LNodeAuthOff == "          # NODE_AUTH_TOKEN: ${{ secrets.NPM_TOKEN }}  # Removed: Using OIDC trusted publishing instead"
LNpmProv     == "          NPM_CONFIG_PROVENANCE: true"
LBlank       == ""

\* The lines a GitHub workflow is built from.
GitHubLines ==
  {LName, LOn, LQuotedOn, LPush, LPermissions, LContents, LIdToken, LJobs,
   LPublish, LPublishProv, LSemRel, LEnv, LNodeAuth, LNodeAuthQ, LNodeAuthOff,
   LNpmProv}

BPipelines   == "pipelines:"
BStep        == "    - step:"
BNameBuild   == "        name: Build"
BNamePublish == "        name: Publish to NPM"
BOidc        == "  oidc: true"
BPublish     == "          - npm publish --access public"
BPublishProv == "          - npm publish --provenance --access public"
BNpmrc       == "          - echo \"//registry.npmjs.org/:_authToken=$NPM_TOKEN\" > .npmrc"
BNpmrcOidc   == "          - echo \"//registry.npmjs.org/:_authToken=${BITBUCKET_STEP_OIDC_TOKEN}\" > .npmrc"
BComment     == "          # NPM_TOKEN must be a secured repository variable"

\* The lines a Bitbucket pipeline file is built from.
BitbucketLines ==
  {BPipelines, BStep, BNameBuild, BNamePublish, BOidc, BPublish, BPublishProv,
   BNpmrc, BNpmrcOidc, BComment}

AnyLine(c, S) == \E i \in 1..Len(c) : c[i] \in S

FirstIn(c, S) == CHOOSE i \in 1..Len(c) :
                   c[i] \in S /\ \A j \in 1..(i - 1) : c[j] \notin S

InsertAfter(c, i, new) == SubSeq(c, 1, i) \o new \o SubSeq(c, i + 1, Len(c))

\* /semantic-release/i
usesSemanticRelease(c) == AnyLine(c, {LSemRel})

\* /id-token:\s*write/i
hasIdTokenWrite(c) == AnyLine(c, {LIdToken})

\* /^permissions:/m
hasPermissionsBlock(c) == AnyLine(c, {LPermissions})

\* a line that starts with a lowercase letter: what (?=\n[a-z]) looks for
StartsLower == {LName, LOn, LPermissions, LJobs, BPipelines}

\* /^on:[\s\S]*?(?=\n[a-z])/m: from the first `on:` line to the end of the
\* first line that is followed by a line starting with a lowercase letter.
onBlockEnds(c) ==
  IF ~AnyLine(c, {LOn}) THEN {}
  ELSE {j \in FirstIn(c, {LOn})..(Len(c) - 1) : c[j + 1] \in StartsLower}

onBlockEnd(c) == CHOOSE j \in onBlockEnds(c) : \A k \in onBlockEnds(c) : j <= k

\* Patch 1 of updateGitHubWorkflowForOIDC (lines 336-360): `updated = true`
\* is outside the two branches that change the content.
ghAddIdToken(c) ==
  IF hasIdTokenWrite(c) THEN [content |-> c, changes |-> <<>>, updated |-> FALSE]
  ELSE IF hasPermissionsBlock(c)
  THEN [content |-> InsertAfter(c, FirstIn(c, {LPermissions}), <<LIdToken>>),
        changes |-> <<"Added id-token: write to existing permissions block">>,
        updated |-> TRUE]
  ELSE IF onBlockEnds(c) # {}
  THEN [content |-> InsertAfter(c, onBlockEnd(c),
                      <<LBlank, LPermissions, LIdToken, LContents>>),
        changes |-> <<"Added permissions block with id-token: write">>,
        updated |-> TRUE]
  ELSE [content |-> c, changes |-> <<>>, updated |-> TRUE]

\* /NPM_CONFIG_PROVENANCE:\s*true/i
hasProvenanceConfig(c) == AnyLine(c, {LNpmProv})

\* /(env:\s*\n)(\s+)(\w+_TOKEN:\s*\$\{\{[^}]+\}\})/i: an env: line directly
\* followed by an indented X_TOKEN: ${{ ... }} line.
envBlockMatches(c) ==
  {i \in 1..(Len(c) - 1) : c[i] = LEnv /\ c[i + 1] = LNodeAuth}

\* Patch 2 (lines 362-382).
ghAddProvenanceEnv(c) ==
  IF usesSemanticRelease(c) /\ ~hasProvenanceConfig(c) /\ envBlockMatches(c) # {}
  THEN LET i == CHOOSE k \in envBlockMatches(c) :
                  \A m \in envBlockMatches(c) : k <= m
       IN [content |-> InsertAfter(c, i, <<LNpmProv>>),
           changes |-> <<"Added NPM_CONFIG_PROVENANCE: true for semantic-release provenance">>,
           updated |-> TRUE]
  ELSE [content |-> c, changes |-> <<>>, updated |-> FALSE]

\* content.includes('npm publish')
includesNpmPublish(c) ==
  AnyLine(c, {LPublish, LPublishProv, BPublish, BPublishProv})

\* content.includes('--provenance')
includesProvenanceFlag(c) == AnyLine(c, {LPublishProv, BPublishProv})

\* .replace(/npm\s+publish(?!\s+--provenance)/g, 'npm publish --provenance')
addProvenanceFlag(line) ==
  IF line = LPublish THEN LPublishProv
  ELSE IF line = BPublish THEN BPublishProv
  ELSE line

\* Patch 3 (lines 384-395 and 461-472).
addProvenance(c) ==
  IF includesNpmPublish(c) /\ ~includesProvenanceFlag(c)
  THEN [content |-> [i \in 1..Len(c) |-> addProvenanceFlag(c[i])],
        changes |-> <<"Added --provenance flag to npm publish commands">>,
        updated |-> TRUE]
  ELSE [content |-> c, changes |-> <<>>, updated |-> FALSE]

\* /^[^#]*NODE_AUTH_TOKEN.*secrets\.NPM_TOKEN/im
hasUncommentedNodeAuth(c) == AnyLine(c, {LNodeAuth, LNodeAuthQ})

\* .replace(/^(\s*)(NODE_AUTH_TOKEN:\s*\$\{\{\s*secrets\.NPM_TOKEN\s*\}\})/gim,
\*          '$1# $2  # Removed: Using OIDC trusted publishing instead')
commentOutNodeAuth(line) == IF line = LNodeAuth THEN LNodeAuthOff ELSE line

\* Patch 4 (lines 397-407).
ghCommentNodeAuth(c) ==
  IF hasUncommentedNodeAuth(c)
  THEN [content |-> [i \in 1..Len(c) |-> commentOutNodeAuth(c[i])],
        changes |-> <<"Commented out NODE_AUTH_TOKEN (OIDC replaces token-based auth)">>,
        updated |-> TRUE]
  ELSE [content |-> c, changes |-> <<>>, updated |-> FALSE]

\* updateGitHubWorkflowForOIDC: the four patches in order, each reading the
\* content the previous one left.  (usesSemanticRelease is computed before
\* patch 1 in the code; no patch adds or removes a semantic-release line.)
gitHubUpdate(c) ==
  LET p1 == ghAddIdToken(c)
      p2 == ghAddProvenanceEnv(p1.content)
      p3 == addProvenance(p2.content)
      p4 == ghCommentNodeAuth(p3.content)
  IN [content |-> p4.content,
      changes |-> p1.changes \o p2.changes \o p3.changes \o p4.changes,
      updated |-> p1.updated \/ p2.updated \/ p3.updated \/ p4.updated]

\* content.includes('oidc: true')
includesOidcTrue(c) == AnyLine(c, {BOidc})

\* /(-\s*step:[\s\S]*?name:\s*[^\n]*[Pp]ublish[^\n]*\n)/: from the first
\* `- step:` to the end of the first later name line that contains 'ublish'.
publishNameLines(c) ==
  IF ~AnyLine(c, {BStep}) THEN {}
  ELSE {j \in (FirstIn(c, {BStep}) + 1)..Len(c) : c[j] = BNamePublish}

\* Patch 1 of updateBitbucketPipelineForOIDC (lines 427-446).  The matched
\* text starts at the '-' of `- step:`, so /^(\s*)-\s*step:/m captures the
\* empty indent and the inserted line is `  oidc: true`.
bbAddOidc(c) ==
  IF ~includesOidcTrue(c) /\ publishNameLines(c) # {}
  THEN LET j == CHOOSE k \in publishNameLines(c) :
                  \A m \in publishNameLines(c) : k <= m
       IN [content |-> InsertAfter(c, j, <<BOidc>>),
           changes |-> <<"Added oidc: true to publish step">>,
           updated |-> TRUE]
  ELSE [content |-> c, changes |-> <<>>, updated |-> FALSE]

\* content.includes('NPM_TOKEN')
includesNpmToken(c) == AnyLine(c, {BNpmrc, BComment})

\* content.includes('BITBUCKET_STEP_OIDC_TOKEN')
includesOidcToken(c) == AnyLine(c, {BNpmrcOidc})

\* .replace(/\$\{?NPM_TOKEN\}?/g, '${BITBUCKET_STEP_OIDC_TOKEN}')
replaceNpmToken(line) == IF line = BNpmrc THEN BNpmrcOidc ELSE line

\* Patch 2 (lines 448-459): the guard looks for 'NPM_TOKEN', the replacement
\* for '$NPM_TOKEN' or '${NPM_TOKEN}'.
bbReplaceToken(c) ==
  IF includesNpmToken(c) /\ ~includesOidcToken(c)
  THEN [content |-> [i \in 1..Len(c) |-> replaceNpmToken(c[i])],
        changes |-> <<"Replaced NPM_TOKEN with BITBUCKET_STEP_OIDC_TOKEN">>,
        updated |-> TRUE]
  ELSE [content |-> c, changes |-> <<>>, updated |-> FALSE]

\* updateBitbucketPipelineForOIDC: the three patches in order.
bitbucketUpdate(c) ==
  LET p1 == bbAddOidc(c)
      p2 == bbReplaceToken(p1.content)
      p3 == addProvenance(p2.content)
  IN [content |-> p3.content,
      changes |-> p1.changes \o p2.changes \o p3.changes,
      updated |-> p1.updated \/ p2.updated \/ p3.updated]

\* analyzeWorkflow: hasIdTokenPermission, the disjunction of
\* /permissions:\s*[\s\S]*?id-token:\s*write/i and /id-token:\s*write/i;
\* the second pattern matches wherever the first does.
hasIdTokenPermission(c) == hasIdTokenWrite(c)

\* /^[^#]*\$\{\{\s*secrets\.NPM_TOKEN\s*\}\}/im and
\* /^[^#]*NODE_AUTH_TOKEN.*secrets\.NPM_TOKEN/im: a use of the secret with no
\* "#" before it on its line.
hasNpmTokenSecret(c) == AnyLine(c, {LNodeAuth, LNodeAuthQ})

\* analyzeWorkflow: publishCommands, the /npm\s+publish[^\n]*/g matches in
\* file order, then one display entry when semantic-release is used.
SemRelDisplay == "npx semantic-release (uses @semantic-release/npm)"

publishCommands(c) ==
  SelectSeq(c, LAMBDA l : l \in {LPublish, LPublishProv}) \o
  (IF usesSemanticRelease(c) THEN <<SemRelDisplay>> ELSE <<>>)

\* analyzeWorkflow for a GitHub workflow.
analyzeWorkflow(c) ==
  [hasIdTokenPermission |-> hasIdTokenPermission(c),
   hasNpmTokenSecret    |-> hasNpmTokenSecret(c),
   publishCommands      |-> publishCommands(c),
   usesSemanticRelease  |-> usesSemanticRelease(c),
   hasProvenanceConfig  |-> hasProvenanceConfig(c)]

\* analyzeBitbucketPipeline: hasIdTokenPermission is /oidc:\s*true/i,
\* hasNpmTokenSecret is /\$\{?NPM_TOKEN\}?/i, hasProvenanceConfig is
\* /--provenance/i or NPM_CONFIG_PROVENANCE: true; usesSemanticRelease is
\* not set, which the caller reads as false.
analyzeBitbucketPipeline(c) ==
  [hasIdTokenPermission |-> AnyLine(c, {BOidc}),
   hasNpmTokenSecret    |-> AnyLine(c, {BNpmrc}),
   publishCommands      |-> SelectSeq(c, LAMBDA l : l \in {BPublish, BPublishProv}),
   usesSemanticRelease  |-> FALSE,
   hasProvenanceConfig  |-> AnyLine(c, {BPublishProv})]

\* c.includes('--provenance') for one entry of publishCommands
commandHasProvenance(cmd) == cmd \in {LPublishProv, BPublishProv}

DryIdToken    == "Add id-token: write permission"
DryProvEnv    == "Add NPM_CONFIG_PROVENANCE: true for semantic-release"
DryProvFlag   == "Add --provenance flag to npm publish commands"
DryNodeAuth   == "Comment out NODE_AUTH_TOKEN environment variable"
DryNoChanges  == "No changes needed - workflow already configured"

\* simulateWorkflowUpdate: the changes a dry run prints, computed from the
\* analysis of the file alone.
simulateWorkflowUpdate(dialect, c) ==
  LET workflow == IF dialect = "bitbucket" THEN analyzeBitbucketPipeline(c)
                  ELSE analyzeWorkflow(c)
      cmds    == workflow.publishCommands
      changes ==
        (IF ~workflow.hasIdTokenPermission THEN <<DryIdToken>> ELSE <<>>) \o
        (IF workflow.usesSemanticRelease /\ ~workflow.hasProvenanceConfig
         THEN <<DryProvEnv>> ELSE <<>>) \o
        (IF Len(cmds) > 0 /\ ~\E i \in 1..Len(cmds) : commandHasProvenance(cmds[i])
         THEN <<DryProvFlag>> ELSE <<>>) \o
        (IF workflow.hasNpmTokenSecret THEN <<DryNodeAuth>> ELSE <<>>)
  IN IF changes = <<>> THEN <<DryNoChanges>> ELSE changes

\* How many dry runs are made on one file.
MaxDryRuns == 1

\* All non-empty files of at most n lines over a vocabulary.
Files(V, n) == UNION {[1..k -> V] : k \in 1..n}

\* Orchestrator variables are idle while the rewriter is exercised.
SetupIdle ==
  /\ pc = "idle" /\ force = FALSE /\ dryRun = FALSE /\ exitCode = -1
  /\ origin = NoRemote /\ startOrigin = NoRemote
  /\ events = <<>> /\ visited = <<>>
  /\ ri = 0 /\ resp = NoResp /\ report = "none"
  /\ ciFile = "none" /\ ciIndex = "none" /\ ciAtStart = "none"
  /\ pkg = "absent" /\ pkgPatch = 0 /\ tags = {}
  /\ pushOps = <<>> /\ failedStep = "none" /\ runNo = 1

setupVars == <<pc, force, dryRun, exitCode, origin, startOrigin, events,
               visited, ri, resp, report, ciFile, ciIndex, ciAtStart, pkg,
               pkgPatch, tags, pushOps, failedStep, runNo>>

\* A workflow file on disk, of either dialect, and no call made yet.
InitWf ==
  /\ SetupIdle
  /\ pd = PdIdle
  /\ au = AuIdle
  /\ vt = VtIdle
  /\ bp = BpIdle
  /\ sf = SfIdle
  /\ \/ \E c \in Files(GitHubLines, MaxLines) :
          wf = [phase |-> "ready", dialect |-> "github",
                content |-> c, results |-> <<>>,
                dry |-> <<>>]
     \/ \E c \in Files(BitbucketLines, MaxLines) :
          wf = [phase |-> "ready", dialect |-> "bitbucket",
                content |-> c, results |-> <<>>,
                dry |-> <<>>]

\* One call: read the file, patch, write back when `updated`, return.
Call(r) ==
  wf' = [wf EXCEPT
           !.content = IF r.updated THEN r.content ELSE @,
           !.results = Append(@, [updated |-> r.updated,
                                  changes |-> r.changes,
                                  before  |-> wf.content,
                                  after   |-> IF r.updated THEN r.content
                                              ELSE wf.content,
                                  wrote   |-> r.updated])]

updateGitHubWorkflowForOIDC ==
  /\ wf.phase = "ready"
  /\ wf.dialect = "github"
  /\ Len(wf.results) < MaxCalls
  /\ Call(gitHubUpdate(wf.content))
  /\ UNCHANGED <<setupVars, pd, au, vt, bp, sf>>

updateBitbucketPipelineForOIDC ==
  /\ wf.phase = "ready"
  /\ wf.dialect = "bitbucket"
  /\ Len(wf.results) < MaxCalls
  /\ Call(bitbucketUpdate(wf.content))
  /\ UNCHANGED <<setupVars, pd, au, vt, bp, sf>>

\* updateWorkflow with options.dryRun: print what simulateWorkflowUpdate
\* returns and return; the file is read, never written.
updateWorkflowDryRun ==
  /\ wf.phase = "ready"
  /\ Len(wf.dry) < MaxDryRuns
  /\ wf' = [wf EXCEPT
              !.dry = Append(@, [before  |-> wf.content,
                                 after   |-> wf.content,
                                 changes |-> simulateWorkflowUpdate(wf.dialect,
                                                                    wf.content)])]
  /\ UNCHANGED <<setupVars, pd, au, vt, bp, sf>>

NextWf ==
  \/ updateGitHubWorkflowForOIDC
  \/ updateBitbucketPipelineForOIDC
  \/ updateWorkflowDryRun

SpecWf == InitWf /\ [][NextWf]_vars

\* C6: updateWorkflowForOIDC is idempotent: the second of two calls in a row
\* returns updated = false with an empty changes list and leaves the file as
\* the first call left it.
C6_UpdateIdempotent ==
  (wf.phase = "ready" /\ Len(wf.results) >= 2) =>
    /\ wf.results[2].updated = FALSE
    /\ wf.results[2].changes = <<>>
    /\ wf.results[2].after = wf.results[1].after

(***************************************************************************)
(* Claims on the later steps of the orchestrator.                          *)
(***************************************************************************)
\* C11: when the repository-settings update of step 7 fails, the run halts
\* there: the error line is the last thing the run does, no step after the
\* seventh is entered, and the process exits with code 1.
C11_SettingsFailureHalts ==
  Has("settings error") =>
    /\ pc = "done" /\ exitCode = 1
    /\ failedStep = "ConfigureRepositorySettings"
    /\ ~Entered(StepNo("ConfigureRepositorySettings") + 1)
    /\ events[Len(events)] = "settings error"

C11_Witness ==
  /\ Has("settings error") /\ ~dryRun
  /\ visited[Len(visited)] = "ConfigureRepositorySettings"
  /\ pc = "done"

\* C12: in a non-dry run every restriction of the list is requested exactly
\* once (the k-th request belongs to the k-th restriction); an error on a
\* restriction never ends the run inside step 8, the step after it is
\* entered, and when no other step ends the run all fourteen steps execute.
C12_RestrictionsIndependent ==
  /\ (pc = "CreateBranchProtection" /\ ~dryRun) =>
        CountOf("POST restriction") = ri
  /\ (~dryRun /\ Entered(StepNo("EnableCiPlatformFeature"))) =>
        CountOf("POST restriction") = Len(restrictions)
  /\ failedStep # "CreateBranchProtection"
  /\ (Has("restriction error") /\ pc = "done") =>
        /\ Entered(StepNo("EnableCiPlatformFeature"))
        /\ failedStep = "none" => Len(visited) = Len(Steps)

\* The first restriction failed, the second was still requested and created,
\* and the run went on to its last step.
C12_Witness ==
  /\ pc = "done" /\ exitCode = 0
  /\ Len(visited) = Len(Steps)
  /\ \E i \in 1..Len(events) :
       /\ events[i] = "POST restriction"
       /\ events[i + 1] = "restriction error"
       /\ events[i + 2] = "POST restriction"
       /\ events[i + 3] # "restriction error"

\* What a step must at least have done in this run to count as succeeded:
\* the request, write or commit that is its purpose was issued and was not
\* followed by its error line.
stepActed(step) ==
  CASE step = "ConfigureRepositorySettings" ->
         Has("PUT settings") /\ ~Has("settings error")
    [] step = "CreateBranchProtection" ->
         Has("POST restriction") /\ ~Has("restriction error")
    [] step = "MaterializeCiConfigFile" -> ciFile = "gen"
    [] step = "CommitAndPush" -> Has("commit") /\ Has("push")
    [] OTHER -> FALSE

\* C13: every finished run has printed the summary, and every line the
\* summary marks as done speaks of a step that acted in this run.
C13_SummaryAlwaysAndTruthful ==
  /\ pc = "done" => Has("summary")
  /\ Has("summary") =>
       \A k \in 1..Len(summaryLines) : stepActed(summaryLines[k].step)

\* C14, amended: a file identical to the generated content is neither
\* prompted for nor written; the prompt appears only for a differing file
\* without force; without a write the file is what it was; a write happens
\* only outside dryRun, for a missing file or for a differing one under force
\* or after the prompt.  Hence a run that starts from the file a previous run
\* left in generated form never prompts for it nor rewrites it.
C14_MaterializeRules ==
  /\ ciAtStart = "gen" => (~Has("prompt overwrite") /\ ~Has("write ci"))
  /\ Has("prompt overwrite") => (ciAtStart = "other" /\ ~force)
  /\ ~Has("write ci") => ciFile = ciAtStart
  /\ Has("write ci") =>
       /\ ~dryRun
       /\ \/ ciAtStart = "none"
          \/ ciAtStart = "other" /\ (force \/ Has("prompt overwrite"))
  /\ CountOf("prompt overwrite") <= 1 /\ CountOf("write ci") <= 1

\* C14 as stated: the rules of the step and, as their consequence, no run
\* after the first prompts for the CI file or writes it.
C14_SecondRunSilent ==
  /\ C14_MaterializeRules
  /\ runNo >= 2 => (~Has("prompt overwrite") /\ ~Has("write ci"))

\* A second run, without force, that found the file of the first run and
\* went past step 11.
C14_Witness ==
  /\ runNo = 2 /\ ~force /\ ~dryRun
  /\ ciAtStart = "gen"
  /\ Entered(StepNo("ProvisionPublishingSecret"))

\* The event at position i is e and the one right before it is d.
Follows(e, d) ==
  \A i \in 1..Len(events) :
    events[i] = e => (i > 1 /\ events[i - 1] = d)

\* C15: the creation request comes first, right after the token prompt; the
\* list request is made only on the 409 answer to it, the update only after
\* the list request, and each at most once; whatever the three requests
\* answer, the step does not end the run: step 13 is entered next and step
\* 12 is never the cause of a non-zero exit.
C15_CreateThenUpdateNeverRaises ==
  /\ Follows("POST variable", "prompt npmToken")
  /\ Follows("variable exists", "POST variable")
  /\ Follows("GET variables", "variable exists")
  /\ Follows("PUT variable", "GET variables")
  /\ \A e \in {"POST variable", "GET variables", "PUT variable"} :
       CountOf(e) <= 1
  /\ Has("variable exists") => Has("GET variables")
  /\ Has("variable updated") => Has("PUT variable")
  /\ failedStep # "ProvisionPublishingSecret"
  /\ (Has("POST variable") /\ pc = "done") =>
       Entered(StepNo("CommitAndPush"))

\* The update after a conflict failed, and the run still completed.
C15_Witness ==
  /\ pc = "done" /\ exitCode = 0
  /\ \E i \in 1..Len(events) :
       /\ events[i] = "PUT variable"
       /\ events[i + 1] = "variable unchanged"

PdLeads == {"", "x"}

PdSchemes == {"https://", "http://", "git@"}

\* nothing, credentials, or text holding a "/" and ending in "@" as in
\* https://gitlab.com/x@github.com/owner/repo
PdCreds == {"", "user:token@", "gitlab.com/x@"}

PdHosts == {"github.com", "bitbucket.org", "gitlab.com"}

PdOwners == {"acme", "my-team"}

PdNames == {<<"repo">>, <<"my", ".repo">>}

PdTails == {<<>>, <<".git">>, <<"/">>}

PdUrls ==
  {u \in [lead : PdLeads, scheme : PdSchemes, cred : PdCreds, host : PdHosts,
          owner : PdOwners, name : PdNames, tail : PdTails] :
     u.scheme = "git@" => u.cred = ""}

\* getRemoteUrl() returns null: no .git/config, or no url under origin.
PdNoRemote == [lead |-> "null"]

\* undefined (no override given), or the string given
PdOverrides == {"undefined", "github", "bitbucket", "gitlab", ""}

\* The text after the last "/" of the URL, as pieces.
lastSegment(u) == u.name \o u.tail

\* ([^/]+?)(?:\.git)?$ on the last segment: the segment is not empty and has
\* no "/"; the lazy group leaves a final ".git" to the optional group.
repoCapture(seg) ==
  IF seg[Len(seg)] = ".git" /\ Len(seg) > 1
  THEN SubSeq(seg, 1, Len(seg) - 1)
  ELSE seg

segmentMatches(seg) == \A i \in 1..Len(seg) : seg[i] # "/"

\* /https:\/\/(?:[^@]+@)?HOST\/([^/]+)\/([^/]+?)(?:\.git)?$/ : unanchored at
\* the left, so any lead is passed over; [^@]+@ takes any text without "@".
httpsMatch(u, host) ==
  /\ u.scheme = "https://"
  /\ u.host = host
  /\ segmentMatches(lastSegment(u))

\* /git@HOST:([^/]+)\/([^/]+?)(?:\.git)?$/
sshMatch(u, host) ==
  /\ u.scheme = "git@"
  /\ u.host = host
  /\ segmentMatches(lastSegment(u))

PdInfo(platform, u) ==
  [platform |-> platform, owner |-> u.owner,
   repo |-> repoCapture(lastSegment(u)), remoteUrl |-> u]

PdError(kind) == [error |-> kind]

\* parseRemoteUrl(): the four patterns in the order of the code.
parseRemoteUrl(u) ==
  IF httpsMatch(u, "github.com") THEN PdInfo("github", u)
  ELSE IF sshMatch(u, "github.com") THEN PdInfo("github", u)
  ELSE IF httpsMatch(u, "bitbucket.org") THEN PdInfo("bitbucket", u)
  ELSE IF sshMatch(u, "bitbucket.org") THEN PdInfo("bitbucket", u)
  ELSE PdError("Unsupported remote URL format")

\* `if (platformOverride)`: undefined and the empty string are falsy.
truthy(override) == override \notin {"undefined", ""}

detect_overrideFirst(remote, override) ==
  IF truthy(override) /\ override \notin {"github", "bitbucket"}
  THEN PdError("Unsupported platform")
  ELSE IF remote = PdNoRemote
  THEN PdError("Could not detect git remote")
  ELSE LET info == parseRemoteUrl(remote)
       IN IF "error" \in DOMAIN info THEN info
          ELSE IF truthy(override)
          THEN [info EXCEPT !.platform = override]
          ELSE info

\* detect(): remote, then parse (its error propagates), then the override.
detect(remote, override) ==
  IF remote = PdNoRemote
  THEN PdError("Could not detect git remote")
  ELSE LET info == parseRemoteUrl(remote)
       IN IF "error" \in DOMAIN info THEN info
          ELSE IF truthy(override)
          THEN IF override \notin {"github", "bitbucket"}
               THEN PdError("Unsupported platform")
               ELSE [info EXCEPT !.platform = override]
          ELSE info

\* The detector is called on a working tree whose origin is pd.remote.
InitDetect ==
  /\ SetupIdle
  /\ wf = WfIdle
  /\ au = AuIdle
  /\ vt = VtIdle
  /\ bp = BpIdle
  /\ sf = SfIdle
  /\ \E r \in PdUrls \cup {PdNoRemote}, o \in PdOverrides :
       pd = [phase |-> "ready", remote |-> r, override |-> o,
             out |-> PdError("not called")]

\* PlatformDetector.parseRemoteUrl(url) is called on the remote.
CallParseRemoteUrl ==
  /\ pd.phase = "ready"
  /\ pd.remote # PdNoRemote
  /\ pd' = [pd EXCEPT !.phase = "parsed", !.out = parseRemoteUrl(pd.remote)]
  /\ UNCHANGED <<setupVars, wf, au, vt, bp, sf>>

\* PlatformDetector.detect(cwd, platformOverride) is called.
CallDetect ==
  /\ pd.phase = "ready"
  /\ pd' = [pd EXCEPT !.phase = "detected",
                      !.out = detect(pd.remote, pd.override)]
  /\ UNCHANGED <<setupVars, wf, au, vt, bp, sf>>

NextDetect == CallParseRemoteUrl \/ CallDetect

SpecDetect == InitDetect /\ [][NextDetect]_vars

\* The forms the detector is meant to accept: HTTPS with or without
\* credentials, or SSH, on one of the two hosts, with or without ".git".
supportedForm(u) ==
  /\ u.lead = ""
  /\ u.scheme \in {"https://", "git@"}
  /\ u.cred \in {"", "user:token@"}
  /\ u.host \in {"github.com", "bitbucket.org"}
  /\ u.tail \in {<<>>, <<".git">>}

platformOf(host) == IF host = "github.com" THEN "github" ELSE "bitbucket"

isIdentity(out) == "platform" \in DOMAIN out

\* C17: for a URL of a supported form parseRemoteUrl returns the platform of
\* the host, the owner and the repository name, whatever the credentials and
\* the suffix; for every other URL it fails with the unsupported-format
\* error.
C17_ParseRemoteUrl ==
  pd.phase = "parsed" =>
    IF supportedForm(pd.remote)
    THEN /\ isIdentity(pd.out)
         /\ pd.out.platform = platformOf(pd.remote.host)
         /\ pd.out.owner = pd.remote.owner
         /\ pd.out.repo = pd.remote.name
    ELSE pd.out = PdError("Unsupported remote URL format")

\* C18: with an override of 'github' or 'bitbucket' a returned identity has
\* that platform and the owner, repo and remoteUrl parsed from the remote;
\* with any other override given, the empty string included, detect returns
\* no identity, and on a remote that parses the failure is the
\* unsupported-platform error.
C18_DetectOverride ==
  (pd.phase = "detected" /\ pd.override # "undefined") =>
    IF pd.override \in {"github", "bitbucket"}
    THEN isIdentity(pd.out) =>
           pd.out = [parseRemoteUrl(pd.remote) EXCEPT !.platform = pd.override]
    ELSE /\ ~isIdentity(pd.out)
         /\ (pd.remote # PdNoRemote /\ isIdentity(parseRemoteUrl(pd.remote)))
              => pd.out = PdError("Unsupported platform")

(***************************************************************************)
(* Authentication of the Bitbucket API requests: the header built by       *)
(* BitbucketService's constructor and the header built by                  *)
(* setupNpmRepositoryVariable for its own fetch calls.                     *)
(***************************************************************************)
\* How many requests of one run are followed.
MaxRequests == 3

\* The requests BitbucketService.request sends, by method and endpoint.
ServiceRequests ==
  {"GET /user", "GET repository", "GET permissions", "PUT repository",
   "POST branch-restrictions", "PUT pipelines_config"}

\* The requests setupNpmRepositoryVariable sends with fetch directly.
VariableRequests == {"POST variables", "GET variables", "PUT variables/uuid"}

\* BitbucketService constructor: Basic with a username, else Bearer.
authHeader(hasUsername) == IF hasUsername THEN "Basic" ELSE "Bearer"

\* setupNpmRepositoryVariable: `Basic ${base64(`${username}:${token}`)}`,
\* whether or not BITBUCKET_USERNAME is set.
variableAuthHeader(hasUsername) == "Basic"

\* The process starts with or without BITBUCKET_ACCESS_TOKEN/BITBUCKET_TOKEN
\* and BITBUCKET_USERNAME, through `shelly bitbucket setup` ("setup") or
\* through createPlatformProvider('bitbucket') ("provider").
InitAuth ==
  /\ SetupIdle
  /\ wf = WfIdle
  /\ pd = PdIdle
  /\ vt = VtIdle
  /\ bp = BpIdle
  /\ sf = SfIdle
  /\ \E t \in BOOLEAN, u \in BOOLEAN, e \in {"setup", "provider"} :
       au = [phase |-> "start", entry |-> e, hasToken |-> t,
             hasUsername |-> u, sent |-> <<>>]

\* getCredentials() / createPlatformProvider: without a token the process
\* exits (or the factory throws) before a service object exists.
getCredentials ==
  /\ au.phase = "start"
  /\ au' = [au EXCEPT !.phase = IF au.hasToken THEN "service" ELSE "rejected"]
  /\ UNCHANGED <<setupVars, wf, pd, vt, bp, sf>>

\* BitbucketService.request(method, endpoint)
request ==
  /\ au.phase = "service"
  /\ Len(au.sent) < MaxRequests
  /\ \E r \in ServiceRequests :
       au' = [au EXCEPT !.sent = Append(@, [request |-> r,
                                   scheme |-> authHeader(au.hasUsername)])]
  /\ UNCHANGED <<setupVars, wf, pd, vt, bp, sf>>

\* One of the fetch calls of setupNpmRepositoryVariable.
variableRequest ==
  /\ au.phase = "service"
  /\ au.entry = "setup"
  /\ Len(au.sent) < MaxRequests
  /\ \E r \in VariableRequests :
       au' = [au EXCEPT !.sent = Append(@, [request |-> r,
                           scheme |-> variableAuthHeader(au.hasUsername)])]
  /\ UNCHANGED <<setupVars, wf, pd, vt, bp, sf>>

NextAuth == getCredentials \/ request \/ variableRequest

SpecAuth == InitAuth /\ [][NextAuth]_vars

\* C19: every request of a run carries the scheme the environment selects -
\* Basic when BITBUCKET_USERNAME is set, Bearer when it is not - and without
\* a token no request is sent.
C19_OneAuthScheme ==
  au.phase # "idle" =>
    /\ \A i \in 1..Len(au.sent) :
         au.sent[i].scheme = IF au.hasUsername THEN "Basic" ELSE "Bearer"
    /\ ~au.hasToken => au.sent = <<>>

(***************************************************************************)
(* analyzeWorkflow after updateWorkflowForOIDC.                            *)
(***************************************************************************)
\* A GitHub workflow with an npm publish command, no --provenance anywhere
\* and no permissions: block.
publishesWithoutProvenance(c) ==
  /\ AnyLine(c, {LPublish})
  /\ ~includesProvenanceFlag(c)
  /\ ~hasPermissionsBlock(c)

\* C20: for such a workflow the file after the first update has an
\* id-token: write permission (analyzeWorkflow reports it) and publishes with
\* --provenance, and the second update reports no change.
C20_PublishWorkflowUpdated ==
  (/\ wf.phase = "ready" /\ wf.dialect = "github"
   /\ Len(wf.results) >= 1
   /\ publishesWithoutProvenance(wf.results[1].before)) =>
    /\ hasIdTokenPermission(wf.results[1].after)
    /\ AnyLine(wf.results[1].after, {LPublishProv})
    /\ ~AnyLine(wf.results[1].after, {LPublish})
    /\ Len(wf.results) >= 2 =>
         (~wf.results[2].updated /\ wf.results[2].changes = <<>>)

(***************************************************************************)
(* Claims on the patches of the workflow rewriter.                         *)
(***************************************************************************)
\* The publish commands without the flag, of either dialect.
PublishWithoutFlag == {LPublish, BPublish}

\* C21: after an update call no npm publish command of the file is left
\* without --provenance, whether or not --provenance already occurred
\* somewhere in the file before the call.
C21_EveryPublishHasProvenance ==
  (wf.phase = "ready" /\ Len(wf.results) >= 1) =>
    ~AnyLine(wf.results[1].after, PublishWithoutFlag)

\* analyzeWorkflow: hasNpmTokenSecret, the disjunction of
CountLines(c, S) == Cardinality({i \in 1..Len(c) : c[i] \in S})

\* The legacy-token assignments of a GitHub workflow.
LegacyAssignments == {LNodeAuth, LNodeAuthQ}

\* C22: after a GitHub update every legacy-token assignment of the file is
\* still there as a comment that carries the reason (none was deleted, none
\* was left active), and analyzeWorkflow reports hasNpmTokenSecret = false.
C22_LegacyTokenCommentedOut ==
  (wf.phase = "ready" /\ wf.dialect = "github" /\ Len(wf.results) >= 1) =>
    LET before == wf.results[1].before
        after  == wf.results[1].after
    IN /\ CountLines(after, {LNodeAuthOff}) =
            CountLines(before, LegacyAssignments \cup {LNodeAuthOff})
       /\ ~hasNpmTokenSecret(after)

\* C23: a call returns updated = true, and writes the file, exactly when its
\* changes list is not empty and the content it leaves differs from the
\* content it read; otherwise it returns updated = false with no changes and
\* does not write.
C23_WritesOnlyNeededChanges ==
  (wf.phase = "ready") =>
    \A k \in 1..Len(wf.results) :
      LET r == wf.results[k]
          changed == r.changes # <<>> /\ r.after # r.before
      IN /\ r.updated <=> changed
         /\ r.wrote <=> changed
         /\ ~r.updated => r.changes = <<>>

(***************************************************************************)
(* promptVersionTag with the version text of package.json.  A version is   *)
(* the sequence of the pieces that version.split('.') yields.              *)
(***************************************************************************)
\* pkg.version is absent from package.json
NoVersion == <<"undefined">>

VtVersions ==
  {<<"1", "0", "0">>, <<"1", "2", "3">>, <<"0", "9">>,
   <<"1", "2", "3-beta", "1">>, NoVersion}

\* `pkg.version || '1.0.0'`
versionOrDefault(v) == IF v = NoVersion THEN <<"1", "0", "0">> ELSE v

\* String(Number(s)) for the pieces in use: digits convert, other text is NaN.
numberText(s) == IF s \in {"0", "1", "2", "3", "9"} THEN s ELSE "NaN"

\* String(Number(s) + 1)
numberPlusOneText(s) ==
  CASE s = "0" -> "1" [] s = "1" -> "2" [] s = "2" -> "3" [] s = "3" -> "4"
    [] s = "9" -> "10" [] OTHER -> "NaN"

\* `${parts[i]}` of parts = version.split('.').map(Number)
partText(v, i) == IF i <= Len(v) THEN numberText(v[i]) ELSE "undefined"

\* `${parts[0]}.${parts[1]}.${parts[2] + 1}`
nextPatch(v) ==
  <<partText(v, 1), partText(v, 2),
    IF Len(v) >= 3 THEN numberPlusOneText(v[3]) ELSE "NaN">>

VtNone == <<>>

\* promptVersionTag() as a function of the options, of package.json, of
\* whether `git tag -l v<version>` prints the tag, of the user's answer and
\* of whether the write, the commit and the tag command succeed: the text
\* written to pkg.version, the commit made, the tag created, the prompt.
versionTagOutcome(o) ==
  LET version == versionOrDefault(o.version)
      nothing == [prompt |-> "none", written |-> VtNone, commit |-> FALSE,
                  tag |-> VtNone, push |-> FALSE]
  IN IF o.dryRun \/ o.force \/ ~o.hasPkg THEN nothing
     ELSE IF o.tagExists
     THEN IF ~o.yes THEN [nothing EXCEPT !.prompt = "bumpAndTag"]
          ELSE [prompt |-> "bumpAndTag",
                written |-> IF o.writeOk THEN nextPatch(version) ELSE VtNone,
                commit |-> o.writeOk /\ o.commitOk,
                tag |-> IF o.writeOk /\ o.commitOk /\ o.tagOk
                        THEN nextPatch(version) ELSE VtNone,
                push |-> o.writeOk /\ o.commitOk /\ o.tagOk]
     ELSE IF ~o.yes THEN [nothing EXCEPT !.prompt = "createTag"]
          ELSE [prompt |-> "createTag", written |-> VtNone, commit |-> FALSE,
                tag |-> IF o.tagOk THEN version ELSE VtNone,
                push |-> o.tagOk]

\* The options and the repository promptVersionTag is called with.
InitTag ==
  /\ SetupIdle
  /\ wf = WfIdle /\ pd = PdIdle /\ au = AuIdle
  /\ bp = BpIdle /\ sf = SfIdle
  /\ \E f \in BOOLEAN, d \in BOOLEAN, p \in BOOLEAN, v \in VtVersions,
        t \in BOOLEAN :
       vt = [phase |-> "ready", force |-> f, dryRun |-> d, hasPkg |-> p,
             version |-> v, tagExists |-> t]

\* One call of promptVersionTag(cwd).
CallPromptVersionTag ==
  /\ vt.phase = "ready"
  /\ \E yes \in BOOLEAN, writeOk \in BOOLEAN, commitOk \in BOOLEAN,
        tagOk \in BOOLEAN :
       LET o == [force |-> vt.force, dryRun |-> vt.dryRun,
                 hasPkg |-> vt.hasPkg, version |-> vt.version,
                 tagExists |-> vt.tagExists, yes |-> yes,
                 writeOk |-> writeOk, commitOk |-> commitOk,
                 tagOk |-> tagOk]
       IN vt' = [phase |-> "done", in |-> o, out |-> versionTagOutcome(o)]
  /\ UNCHANGED <<setupVars, wf, pd, au, bp, sf>>

NextTag == CallPromptVersionTag

SpecTag == InitTag /\ [][NextTag]_vars

\* The numeric patch of the third piece of a version: its leading digits.
patchDigits(s) == IF s = "3-beta" THEN "3" ELSE s

\* major.minor.(patch+1) of a version with at least three pieces.
bumpedPatch(v) == <<v[1], v[2], numberPlusOneText(patchDigits(v[3]))>>

\* C24: package.json is rewritten only in the bump flow - the tag of the
\* current version exists and the user accepted - and then holds
\* major.minor.(patch+1), which is committed, tagged and pushed; without
\* that tag the step at most creates and pushes the tag of the current
\* version; on a declined prompt nothing is written, committed or tagged.
C24_BumpOnlyOnExistingTag ==
  vt.phase = "done" =>
    LET o == vt.in
        r == vt.out
        version == versionOrDefault(o.version)
    IN /\ r.written # VtNone =>
            /\ o.tagExists /\ o.yes
            /\ Len(version) >= 3 => r.written = bumpedPatch(version)
       /\ r.tag \notin {VtNone, version} =>
            (r.tag = r.written /\ r.commit /\ r.push)
       /\ ~o.tagExists =>
            (r.written = VtNone /\ ~r.commit /\ r.tag \in {VtNone, version})
       /\ (r.prompt # "none" /\ ~o.yes) =>
            (r.written = VtNone /\ ~r.commit /\ r.tag = VtNone /\ ~r.push)

(***************************************************************************)
(* BitbucketProvider.createBranchProtection: the loop over the bundle of   *)
(* restrictions, one iteration per step, called up to MaxProviderCalls     *)
(* times on the same branch.                                               *)
(***************************************************************************)
MaxProviderCalls == 2

\* The restrictions array of BitbucketProvider.createBranchProtection.
providerRestrictions ==
  <<"require_approvals_to_merge", "require_passing_builds_to_merge", "push">>

\* What the loop's try/catch does with the answer to one request.
providerReport(r) ==
  IF responseOk(r) THEN "created"
  ELSE IF msgIncludesAlreadyExists(r) \/ msgIncludes409(r) THEN "continue"
  ELSE "throw"

InitProvider ==
  /\ SetupIdle
  /\ wf = WfIdle /\ pd = PdIdle /\ au = AuIdle
  /\ vt = VtIdle /\ sf = SfIdle
  /\ bp = [phase |-> "loop", call |-> 1, i |-> 0, attempts |-> <<>>]

\* One iteration of `for (const restriction of restrictions)`.
providerCreateBranchRestriction ==
  /\ bp.phase = "loop"
  /\ bp.i < Len(providerRestrictions)
  /\ \E r \in Responses :
       bp' = [bp EXCEPT
                !.i = @ + 1,
                !.attempts = Append(@, [kind |-> providerRestrictions[bp.i + 1],
                                        answer |-> r,
                                        report |-> providerReport(r)]),
                !.phase = IF providerReport(r) = "throw" THEN "thrown"
                          ELSE "loop"]
  /\ UNCHANGED <<setupVars, wf, pd, au, vt, sf>>

\* The loop is over: createBranchProtection returns.
providerReturn ==
  /\ bp.phase = "loop"
  /\ bp.i = Len(providerRestrictions)
  /\ bp' = [bp EXCEPT !.phase = "returned"]
  /\ UNCHANGED <<setupVars, wf, pd, au, vt, sf>>

\* createBranchProtection is called again for the same branch.
providerCallAgain ==
  /\ bp.phase \in {"returned", "thrown"}
  /\ bp.call < MaxProviderCalls
  /\ bp' = [phase |-> "loop", call |-> bp.call + 1, i |-> 0,
            attempts |-> <<>>]
  /\ UNCHANGED <<setupVars, wf, pd, au, vt, sf>>

NextProvider ==
  \/ providerCreateBranchRestriction
  \/ providerReturn
  \/ providerCallAgain

SpecProvider == InitProvider /\ [][NextProvider]_vars

\* C25: a call that has ended, by return or by throw, has attempted every
\* restriction of the bundle, in order and once each; and an answer whose
\* message says 'already exists' never ends the call.
C25_ProviderRestrictionsIndependent ==
  /\ bp.phase \in {"returned", "thrown"} =>
       /\ Len(bp.attempts) = Len(providerRestrictions)
       /\ \A k \in 1..Len(bp.attempts) :
            bp.attempts[k].kind = providerRestrictions[k]
  /\ bp.phase # "idle" =>
       \A k \in 1..Len(bp.attempts) :
         bp.attempts[k].answer.body = "already exists" =>
           bp.attempts[k].report = "continue"

\* The number of leading spaces of a line of the Bitbucket vocabulary.
indentOf(line) ==
  CASE line = BPipelines -> 0
    [] line = BOidc -> 2
    [] line = BStep -> 4
    [] line \in {BNameBuild, BNamePublish} -> 8
    [] OTHER -> 10

\* A pipeline file without 'oidc: true' that has a step named '...Publish...'.
hasPublishStepWithoutOidc(c) == ~includesOidcTrue(c) /\ publishNameLines(c) # {}

\* C26: for such a file the update leaves exactly one 'oidc: true' line,
\* directly after the name line of the publish step and with the indentation
\* of that name key, and no $NPM_TOKEN reference.
C26_OidcInsertedIntoPublishStep ==
  (/\ wf.phase = "ready" /\ wf.dialect = "bitbucket"
   /\ Len(wf.results) >= 1
   /\ hasPublishStepWithoutOidc(wf.results[1].before)) =>
    LET after == wf.results[1].after
    IN /\ CountLines(after, {BOidc}) = 1
       /\ \A j \in 1..Len(after) :
            after[j] = BOidc =>
              /\ j > 1
              /\ after[j - 1] = BNamePublish
              /\ indentOf(after[j]) = indentOf(after[j - 1])
       /\ ~AnyLine(after, {BNpmrc})

\* C27: detect fails in a fixed order.  Without an origin remote the error
\* is the no-remote one, whatever the override; with a remote the parser
\* rejects (one on another host in particular) the error is the
\* unsupported-format one, whatever the override; so an identity is returned
\* only for a remote the parser accepts.
C27_DetectFailureOrder ==
  pd.phase = "detected" =>
    /\ pd.remote = PdNoRemote =>
         pd.out = PdError("Could not detect git remote")
    /\ (pd.remote # PdNoRemote /\ ~isIdentity(parseRemoteUrl(pd.remote))) =>
         pd.out = PdError("Unsupported remote URL format")
    /\ (pd.remote # PdNoRemote /\ pd.remote.host = "gitlab.com") =>
         pd.out = PdError("Unsupported remote URL format")
    /\ isIdentity(pd.out) =>
         (pd.remote # PdNoRemote /\ isIdentity(parseRemoteUrl(pd.remote)))

\* detect was called with a valid override on a remote of another host.
C27_Witness ==
  /\ pd.phase = "detected"
  /\ pd.remote # PdNoRemote
  /\ pd.remote.host = "gitlab.com"
  /\ pd.override = "github"
  /\ pd.out = PdError("Unsupported remote URL format")

\* The answers the permissions lookup is modelled with.
PermissionAnswers == {"admin", "write", "read", "none"}

\* C28: checkRepositoryPermissions returns {admin: false, push: false,
\* pull: true} on every API error and on an empty result; in every value it
\* returns admin implies push and pull is true; and a run whose lookup
\* failed or came back empty ends at CheckAdminAccess with exit code 1,
\* before any mutation, as a run with a genuine non-admin answer does.
C28_PermissionsFailClosed ==
  /\ \A apiOk \in BOOLEAN, p \in PermissionAnswers :
       LET r == checkRepositoryPermissions(apiOk, p)
       IN /\ (~apiOk \/ p = "none") =>
               r = [admin |-> FALSE, push |-> FALSE, pull |-> TRUE]
          /\ r.admin => r.push
          /\ r.pull
  /\ HasAny({"permissions error", "permissions empty", "permissions read",
             "permissions write"}) =>
       /\ pc = "done" /\ exitCode = 1
       /\ failedStep = "CheckAdminAccess"
       /\ events[Len(events)] = "admin no"
       /\ visited[Len(visited)] = "CheckAdminAccess"
       /\ ~HasAny(Mutations)

\* The lookup failed and the run ended at step 4.
C28_Witness ==
  /\ Has("permissions error")
  /\ pc = "done" /\ exitCode = 1
  /\ failedStep = "CheckAdminAccess"

InSeq(x, s) == \E i \in 1..Len(s) : s[i] = x

\* The entries of a live update's changes list, by the kind of change.
LiveIdToken  == {"Added id-token: write to existing permissions block",
                 "Added permissions block with id-token: write",
                 "Added oidc: true to publish step"}
LiveProvEnv  == {"Added NPM_CONFIG_PROVENANCE: true for semantic-release provenance"}
LiveProvFlag == {"Added --provenance flag to npm publish commands"}
LiveToken    == {"Commented out NODE_AUTH_TOKEN (OIDC replaces token-based auth)",
                 "Replaced NPM_TOKEN with BITBUCKET_STEP_OIDC_TOKEN"}

liveMade(r, S) == \E i \in 1..Len(r.changes) : r.changes[i] \in S

\* A dry run and a live update that read the same file content agree.
dryAgreesWithLive(d, r) ==
  /\ (d.changes = <<DryNoChanges>>) <=> ~r.updated
  /\ InSeq(DryIdToken, d.changes)  <=> liveMade(r, LiveIdToken)
  /\ InSeq(DryProvEnv, d.changes)  <=> liveMade(r, LiveProvEnv)
  /\ InSeq(DryProvFlag, d.changes) <=> liveMade(r, LiveProvFlag)
  /\ InSeq(DryNodeAuth, d.changes) <=> liveMade(r, LiveToken)

\* C29: a dry run of updateWorkflow leaves the workflow file as it found it,
\* and for a dry run and a live update of the same content the dry run
\* prints 'No changes needed' exactly when the live update returns
\* updated = false, and names an id-token, provenance or legacy-token change
\* exactly when the live update lists that change.
C29_DryRunAgreesWithLive ==
  (wf.phase = "ready") =>
    \A i \in 1..Len(wf.dry) :
      /\ wf.dry[i].after = wf.dry[i].before
      /\ \A k \in 1..Len(wf.results) :
           wf.results[k].before = wf.dry[i].before =>
             dryAgreesWithLive(wf.dry[i], wf.results[k])

(***************************************************************************)
(* ServiceFactory.get for one registered name, called by several callers   *)
(* on one event loop.  A step is the code one caller runs between two      *)
(* awaits.  Instances and their initialization promises are numbered in    *)
(* the order the factory creates them; 0 stands for "no entry".            *)
(***************************************************************************)
NumCallers == 3

\* How many instances the factory may create.
MaxInits == 2

\* How many times one caller calls get.
MaxGets == 2

SfCallers == 1..NumCallers

SfNoCall == [pc |-> "idle", awaiting |-> 0, outcome |-> "none",
             instance |-> 0, gets |-> 0]

\* No service, no in-flight entry, no instance created, no call made.
InitFactory ==
  /\ SetupIdle
  /\ wf = WfIdle /\ pd = PdIdle /\ au = AuIdle /\ vt = VtIdle /\ bp = BpIdle
  /\ sf = [phase       |-> "run",
           services    |-> 0,
           inFlight    |-> 0,
           promise     |-> <<>>,
           initialized |-> <<>>,
           initiator   |-> <<>>,
           callers     |-> [c \in SfCallers |-> SfNoCall]]

get_noInFlightCheck(c) ==
  /\ sf.phase = "run"
  /\ sf.callers[c].pc = "idle"
  /\ sf.callers[c].gets < MaxGets
  /\ IF sf.services # 0
     THEN sf' = [sf EXCEPT !.callers[c] =
                   [pc |-> "done", awaiting |-> 0, outcome |-> "instance",
                    instance |-> sf.services, gets |-> @.gets + 1]]
     ELSE /\ Len(sf.promise) < MaxInits
          /\ LET n == Len(sf.promise) + 1
             IN sf' = [sf EXCEPT
                         !.promise     = Append(@, "pending"),
                         !.initialized = Append(@, FALSE),
                         !.initiator   = Append(@, c),
                         !.inFlight    = n,
                         !.callers[c]  =
                           [pc |-> "awaitInit", awaiting |-> n,
                            outcome |-> "none", instance |-> 0,
                            gets |-> @.gets + 1]]
  /\ UNCHANGED <<setupVars, wf, pd, au, vt, bp>>

\* get, up to its first await: return the stored service; or await the
\* in-flight promise; or call the factory, start initialize(), store the
\* promise in inFlight and await it.  The async arrow function runs
\* factory(config) and service.initialize() up to its await before
\* inFlight.set, all in the caller's turn.
get(c) ==
  /\ sf.phase = "run"
  /\ sf.callers[c].pc = "idle"
  /\ sf.callers[c].gets < MaxGets
  /\ IF sf.services # 0
     THEN sf' = [sf EXCEPT !.callers[c] =
                   [pc |-> "done", awaiting |-> 0, outcome |-> "instance",
                    instance |-> sf.services, gets |-> @.gets + 1]]
     ELSE IF sf.inFlight # 0
     THEN sf' = [sf EXCEPT !.callers[c] =
                   [pc |-> "awaitInFlight", awaiting |-> sf.inFlight,
                    outcome |-> "none", instance |-> 0, gets |-> @.gets + 1]]
     ELSE /\ Len(sf.promise) < MaxInits
          /\ LET n == Len(sf.promise) + 1
             IN sf' = [sf EXCEPT
                         !.promise     = Append(@, "pending"),
                         !.initialized = Append(@, FALSE),
                         !.initiator   = Append(@, c),
                         !.inFlight    = n,
                         !.callers[c]  =
                           [pc |-> "awaitInit", awaiting |-> n,
                            outcome |-> "none", instance |-> 0,
                            gets |-> @.gets + 1]]
  /\ UNCHANGED <<setupVars, wf, pd, au, vt, bp>>

\* onInitialize resolves: initialize() sets initialized, the arrow function
\* stores the service and its promise is fulfilled with it.
initializeSucceeds ==
  /\ sf.phase = "run"
  /\ \E p \in 1..Len(sf.promise) :
       /\ sf.promise[p] = "pending"
       /\ sf' = [sf EXCEPT !.promise[p] = "fulfilled",
                           !.initialized[p] = TRUE,
                           !.services = p]
  /\ UNCHANGED <<setupVars, wf, pd, au, vt, bp>>

\* onInitialize rejects (or the factory throws): initialize() rethrows and
\* the promise is rejected; nothing is stored.
initializeFails ==
  /\ sf.phase = "run"
  /\ \E p \in 1..Len(sf.promise) :
       /\ sf.promise[p] = "pending"
       /\ sf' = [sf EXCEPT !.promise[p] = "rejected"]
  /\ UNCHANGED <<setupVars, wf, pd, au, vt, bp>>

\* What a caller gets from a settled promise.
settled(p) ==
  IF sf.promise[p] = "fulfilled"
  THEN [outcome |-> "instance", instance |-> p]
  ELSE [outcome |-> "error", instance |-> 0]

\* The caller that started the initialization resumes after
\* `await initPromise`: `finally` deletes the inFlight entry of the key,
\* then the service is returned or the error rethrown.
getReturn(c) ==
  /\ sf.phase = "run"
  /\ sf.callers[c].pc = "awaitInit"
  /\ sf.promise[sf.callers[c].awaiting] # "pending"
  /\ sf' = [sf EXCEPT
              !.inFlight   = 0,
              !.callers[c] = [pc |-> "done", awaiting |-> 0,
                              outcome  |-> settled(sf.callers[c].awaiting).outcome,
                              instance |-> settled(sf.callers[c].awaiting).instance,
                              gets |-> @.gets]]
  /\ UNCHANGED <<setupVars, wf, pd, au, vt, bp>>

\* A caller that awaited the in-flight promise resumes.  Its reaction was
\* registered after the initiator's, so it runs after the initiator's.
getJoinReturn(c) ==
  /\ sf.phase = "run"
  /\ sf.callers[c].pc = "awaitInFlight"
  /\ sf.promise[sf.callers[c].awaiting] # "pending"
  /\ sf.callers[sf.initiator[sf.callers[c].awaiting]].awaiting
       # sf.callers[c].awaiting
  /\ sf' = [sf EXCEPT
              !.callers[c] = [pc |-> "done", awaiting |-> 0,
                              outcome  |-> settled(sf.callers[c].awaiting).outcome,
                              instance |-> settled(sf.callers[c].awaiting).instance,
                              gets |-> @.gets]]
  /\ UNCHANGED <<setupVars, wf, pd, au, vt, bp>>

\* A caller whose get has returned may call get again.
getAgain(c) ==
  /\ sf.phase = "run"
  /\ sf.callers[c].pc = "done"
  /\ sf.callers[c].gets < MaxGets
  /\ sf' = [sf EXCEPT !.callers[c] =
              [SfNoCall EXCEPT !.gets = sf.callers[c].gets]]
  /\ UNCHANGED <<setupVars, wf, pd, au, vt, bp>>

NextFactory ==
  \/ \E c \in SfCallers : get(c)
  \/ initializeSucceeds
  \/ initializeFails
  \/ \E c \in SfCallers : getReturn(c)
  \/ \E c \in SfCallers : getJoinReturn(c)
  \/ \E c \in SfCallers : getAgain(c)

SpecFactory == InitFactory /\ [][NextFactory]_vars

\* Instance p's initialization is in flight: started and not settled.
initInFlight(p) == sf.promise[p] = "pending"

\* The caller that started instance p's initialization has left get.
initiatorReturned(p) == sf.callers[sf.initiator[p]].awaiting # p

\* C30: the factory creates an instance and starts its initialize() only
\* when every earlier initialization has failed, so at most one is in
\* flight and none is started after a success; every caller that receives
\* a service receives the one stored instance, which is initialized; and
\* the inFlight entry of an initialization is there exactly until the
\* caller that started it has returned, so that after a failure the entry
\* is gone and the next get starts a fresh initialization.
C30_SingleInitialization ==
  (sf.phase = "run") =>
    /\ \A p, q \in 1..Len(sf.promise) : p < q => sf.promise[p] = "rejected"
    /\ \A c \in SfCallers :
         sf.callers[c].outcome = "instance" =>
           /\ sf.callers[c].instance = sf.services
           /\ sf.initialized[sf.services]
    /\ \A p \in 1..Len(sf.promise) :
         /\ initInFlight(p) => sf.inFlight = p
         /\ initiatorReturned(p) => sf.inFlight # p
    /\ (sf.inFlight # 0) => ~initiatorReturned(sf.inFlight)
    /\ (sf.services # 0) => sf.promise[sf.services] = "fulfilled"

\* A first initialization failed and a caller got its error; a later get
\* started a second initialization, which another caller has joined.
C30_Witness ==
  /\ sf.phase = "run"
  /\ Len(sf.promise) = 2
  /\ sf.promise[1] = "rejected"
  /\ sf.inFlight = 2
  /\ \E c \in SfCallers : sf.callers[c].pc = "awaitInFlight"
  /\ \E c \in SfCallers : sf.callers[c].outcome = "error"

====
